---- MODULE Spec2Model ----
(***************************************************************************)
(* A model of the data pipeline of pig/data.py: the triplet sampler, the   *)
(* batch padding and cropping helpers, the cache key, the worker           *)
(* partitioning of the source files, the positive-pair iteration and the   *)
(* item cache of PeppaPigDataset.                                          *)
(*                                                                         *)
(* Every subsystem has its own variables, initial predicate and            *)
(* specification; the variables of the other subsystems stay idle.         *)
(***************************************************************************)
EXTENDS Integers, Sequences, FiniteSets, TLC

VARIABLES
    \* ---- triplet sampler (_triplets, data.py 444-449)
    clips,      \* the input clips, in input order
    groups,     \* the groups grouped() has still to hand out
    paired,     \* the pairs of the current group still to be yielded
    emitted,    \* the (target, distractor) tuples yielded so far
    tpc,        \* position of the _triplets generator
    \* ---- batch helpers (pad_*_batch, crop_*_batch, collate, data.py 57-76)
    rows,       \* the batch: one sequence of values over time per element
    out,        \* the last call and what it returned
    \* ---- cache key (config_id, data.py 301-305, and its two users)
    kwargs,     \* per caller: the keyword arguments, in the order they were given
    itemsDir,   \* per caller: PeppaPigDataset.cache_dir as __init__ resolves it
    clipsDir,   \* per caller: what PeppaPigIterableDataset.clip_dir() returns
    \* ---- worker partitioning (_raw_clips, data.py 222-248)
    fileCount,  \* per episode directory: the number of .avi files in it
    numWorkers, \* worker_info.num_workers; 0 when get_worker_info() is None
    wk,         \* per worker: position, its listing, its range, the files opened
    \* ---- positive-pair iteration (__iter__, _clips, _positives, data.py 193-262)
    raw,        \* the raw clips _raw_clips yields, in order
    ipos,       \* how many of them _clips has pulled
    lookahead,  \* the clip groupby has read beyond the current group, if any
    pending,    \* the Pairs of the current group not yet yielded
    yielded,    \* the Pairs the consumer has received
    ipc,        \* position of the iteration: running, done or raised
    \* ---- item cache (PeppaPigDataset, PeppaTripletDataset._cache_clips, data.py 82-153)
    disk,       \* per directory: whether it exists and the files in it
    ld,         \* per loading process: its arguments, position and locals
    extractions, \* per directory: how often an iteration over the dataset was started
    \* ---- retrieval score (retrieval_score, evaluation.py 112-129)
    vemb,       \* V: the video embeddings, one vector per item
    aemb,       \* A: the audio embeddings, one vector per item
    topn,       \* n: the cutoff of recall_at_n
    hits,       \* per query scored so far: whether its match was among the top n
    rec,        \* the call's position and the score it returned
    \* ---- normalization statistics (get_stats, data.py 272-296)
    data,       \* the data points of the dataset behind the loader
    loader,     \* the batches the loader yields, the same on every pass
    sums,       \* the accumulators of get_stats
    stats,      \* position of get_stats and the Stats it returned
    \* ---- validation (PigData.val_dataloader, PeppaPig.validation_step and
    \*      validation_epoch_end, data.py 396-410, models.py 194-226)
    dm,         \* the PigData module: its configuration and its datasets
    val         \* the validation run: loaders, position, outputs, exception

tripVars == <<clips, groups, paired, emitted, tpc>>
batchVars == <<rows, out>>
cfgVars == <<kwargs, itemsDir, clipsDir>>
workerVars == <<fileCount, numWorkers, wk>>
iterVars == <<raw, ipos, lookahead, pending, yielded, ipc>>
cacheVars == <<disk, ld, extractions>>
recallVars == <<vemb, aemb, topn, hits, rec>>
statVars == <<data, loader, sums, stats>>
valVars == <<dm, val>>

vars == <<tripVars, batchVars, cfgVars, workerVars, iterVars, cacheVars, recallVars, statVars, valVars>>

(***************************************************************************)
(* Bounds of the model.                                                    *)
(***************************************************************************)
MaxClips == 5
MaxBatch == 3
MaxT == 2
MaxWorkers == 3
MaxFilesPerEpisode == 2
MaxRawClips == 4
MaxSourceClips == 2
MaxCachedClips == 2
MaxEmb == 2
MaxN == 2
MaxStatItems == 3
MaxStatBatch == 2
MaxValBatches == 2

\* The values the grouping key (a duration) takes in the model.
Durations == {1, 2}

Range(s) == {s[i] : i \in DOMAIN s}

\* The idle state of each subsystem, taken while another one runs.
TripIdle ==
    /\ clips = <<>>
    /\ groups = <<>>
    /\ paired = <<>>
    /\ emitted = <<>>
    /\ tpc = "idle"

BatchIdle ==
    /\ rows = <<>>
    /\ out = [op |-> "idle"]

Callers == {1, 2}

CfgIdle ==
    /\ kwargs = [c \in Callers |-> <<>>]
    /\ itemsDir = [c \in Callers |-> <<"idle">>]
    /\ clipsDir = [c \in Callers |-> <<"idle">>]

WorkerIdle ==
    /\ fileCount = <<>>
    /\ numWorkers = 0
    /\ wk = <<>>

IterIdle ==
    /\ raw = <<>>
    /\ ipos = 0
    /\ lookahead = <<>>
    /\ pending = <<>>
    /\ yielded = <<>>
    /\ ipc = [at |-> "idle"]

CacheIdle ==
    /\ disk = <<>>
    /\ ld = <<>>
    /\ extractions = <<>>

RecallIdle ==
    /\ vemb = <<>>
    /\ aemb = <<>>
    /\ topn = 0
    /\ hits = <<>>
    /\ rec = [pc |-> "idle"]

StatIdle ==
    /\ data = <<>>
    /\ loader = <<>>
    /\ sums = <<>>
    /\ stats = [pc |-> "idle"]

ValIdle ==
    /\ dm = [pc |-> "idle"]
    /\ val = [pc |-> "idle"]

(***************************************************************************)
(* Triplet sampler.                                                        *)
(***************************************************************************)

\* A clip is known by its position in the input and carries its duration.
Clip(i, d) == [index |-> i, duration |-> d]

\* lambda x: x.duration (triplets) / lambda x: x['duration'] (resample)
criterion(x) == x.duration

\* sorted() is stable: an element goes after the elements whose key is <= its own.
RECURSIVE insert(_, _)
insert(x, ys) ==
    IF ys = <<>> THEN <<x>>
    ELSE IF criterion(x) < criterion(Head(ys))
         THEN <<x>> \o ys
         ELSE <<Head(ys)>> \o insert(x, Tail(ys))

RECURSIVE sorted(_)
sorted(xs) ==
    IF xs = <<>> THEN <<>>
    ELSE insert(xs[Len(xs)], sorted(SubSeq(xs, 1, Len(xs) - 1)))

\* A mutant of groupby: the key is ignored, everything is one group.
groupbyNoKey(xs) == IF xs = <<>> THEN <<>> ELSE <<xs>>

\* itertools.groupby: maximal runs of consecutive elements with equal key.
RECURSIVE groupby(_)
groupby(xs) ==
    IF xs = <<>> THEN <<>>
    ELSE LET rest == groupby(Tail(xs)) IN
         IF rest # <<>> /\ criterion(Head(rest)[1]) = criterion(Head(xs))
         THEN <<(<<Head(xs)>> \o Head(rest))>> \o Tail(rest)
         ELSE <<(<<Head(xs)>>)>> \o rest

\* A mutant of grouped: the input is grouped without being sorted first.
groupedUnsorted(xs) == groupby(xs)

\* grouped(xs, key) = groupby(sorted(xs, key=key), key=key)
grouped(xs) == groupby(sorted(xs))

\* pairs(xs): first with second, third with fourth, ...; an odd one out is dropped.
RECURSIVE pairs(_)
pairs(xs) ==
    IF Len(xs) < 2 THEN <<>>
    ELSE <<(<<xs[1], xs[2]>>)>> \o pairs(SubSeq(xs, 3, Len(xs)))

\* A mutant of shuffled: the elements are drawn with repetition.
shuffledWithRepetition(xs) ==
    LET n == Len(xs) IN
    { [i \in 1..n |-> xs[p[i]]] : p \in [1..n -> 1..n] }

\* shuffled(xs) = sorted(xs, key=lambda _: random.random()): any permutation.
shuffled(xs) ==
    LET n == Len(xs) IN
    { [i \in 1..n |-> xs[p[i]]] :
        p \in { q \in [1..n -> 1..n] : \A i, j \in 1..n : q[i] = q[j] => i = j } }

\* A mutant of sample2: sampling with replacement.
sample2WithReplacement(p) == { <<p[i], p[j]>> : i, j \in 1..2 }

\* random.sample(p, 2): the two members of the pair, in either order.
sample2(p) == { <<p[1], p[2]>>, <<p[2], p[1]>> }

TripInit ==
    /\ ValIdle
    /\ RecallIdle
    /\ StatIdle
    /\ BatchIdle
    /\ CfgIdle
    /\ WorkerIdle
    /\ IterIdle
    /\ CacheIdle
    /\ \E n \in 0..MaxClips : \E ds \in [1..n -> Durations] :
           clips = [i \in 1..n |-> Clip(i, ds[i])]
    /\ groups = <<>>
    /\ paired = <<>>
    /\ emitted = <<>>
    /\ tpc = "start"

\* First next() on the generator: grouped(clips, key=criterion) sorts the input.
TripletsBegin ==
    /\ tpc = "start"
    /\ groups' = grouped(clips)
    /\ tpc' = "groups"
    /\ UNCHANGED <<clips, paired, emitted, batchVars, cfgVars, workerVars, iterVars, cacheVars, recallVars, statVars, valVars>>

\* for size, items in grouped(...): paired = pairs(shuffled(items))
TripletsGroup ==
    /\ tpc = "groups"
    /\ groups # <<>>
    /\ \E s \in shuffled(Head(groups)) : paired' = pairs(s)
    /\ groups' = Tail(groups)
    /\ tpc' = "pairs"
    /\ UNCHANGED <<clips, emitted, batchVars, cfgVars, workerVars, iterVars, cacheVars, recallVars, statVars, valVars>>

\* for p in paired: target, distractor = random.sample(p, 2); yield (target, distractor)
TripletsYield ==
    /\ tpc = "pairs"
    /\ paired # <<>>
    /\ \E td \in sample2(Head(paired)) : emitted' = Append(emitted, td)
    /\ paired' = Tail(paired)
    /\ UNCHANGED <<clips, groups, tpc, batchVars, cfgVars, workerVars, iterVars, cacheVars, recallVars, statVars, valVars>>

\* The inner loop is exhausted: back to the loop over the groups.
TripletsNextGroup ==
    /\ tpc = "pairs"
    /\ paired = <<>>
    /\ tpc' = "groups"
    /\ UNCHANGED <<clips, groups, paired, emitted, batchVars, cfgVars, workerVars, iterVars, cacheVars, recallVars, statVars, valVars>>

\* The loop over the groups is exhausted: the generator returns.
TripletsEnd ==
    /\ tpc = "groups"
    /\ groups = <<>>
    /\ tpc' = "done"
    /\ UNCHANGED <<clips, groups, paired, emitted, batchVars, cfgVars, workerVars, iterVars, cacheVars, recallVars, statVars, valVars>>

TripNext ==
    \/ TripletsBegin
    \/ TripletsGroup
    \/ TripletsYield
    \/ TripletsNextGroup
    \/ TripletsEnd

SpecTriplets == TripInit /\ [][TripNext]_vars

\* Number of input clips whose key is d, and of emitted tuples whose target has key d.
GroupSize(d) == Cardinality({i \in DOMAIN clips : criterion(clips[i]) = d})
EmittedFor(d) == Cardinality({i \in DOMAIN emitted : criterion(emitted[i][1]) = d})

RECURSIVE SumHalves(_)
SumHalves(ds) ==
    IF ds = {} THEN 0
    ELSE LET d == CHOOSE x \in ds : TRUE IN (GroupSize(d) \div 2) + SumHalves(ds \ {d})

\* C2: when _triplets has run to its end, every group of k clips with the same
\* key has given exactly floor(k/2) tuples (none for k = 1), the total is the
\* sum of floor(k/2) over the groups, and the generator never stops early.
C2_TripletCount ==
    /\ tpc \in {"start", "groups", "pairs", "done"}
    /\ tpc = "done" =>
         /\ \A d \in Durations : EmittedFor(d) = GroupSize(d) \div 2
         /\ Len(emitted) = SumHalves(Durations)

\* C2 witness: a finished pass over a group of one clip and a group of three.
C2_Witness ==
    /\ tpc = "done"
    /\ \E d \in Durations : GroupSize(d) = 1 /\ EmittedFor(d) = 0
    /\ \E d \in Durations : GroupSize(d) = 3 /\ EmittedFor(d) = 1

\* C3: in every emitted tuple the target and the distractor are two different
\* clips of the input.
C3_DistinctClips ==
    \A i \in DOMAIN emitted :
        /\ emitted[i][1] \in Range(clips)
        /\ emitted[i][2] \in Range(clips)
        /\ emitted[i][1].index # emitted[i][2].index

\* C3 witness: a tuple was emitted whose target came second in the shuffled pair's
\* input order (the random assignment and the shuffle both acted).
C3_Witness ==
    \E i \in DOMAIN emitted : emitted[i][1].index > emitted[i][2].index

\* C4: in every emitted tuple the target and the distractor have the same key.
C4_SameBucket ==
    \A i \in DOMAIN emitted : criterion(emitted[i][1]) = criterion(emitted[i][2])

\* C4 witness: tuples were emitted for two different keys from an input in which
\* the keys alternate.
C4_Witness ==
    /\ Len(clips) = 4
    /\ \A i \in 1..3 : criterion(clips[i]) # criterion(clips[i + 1])
    /\ \A d \in Durations : EmittedFor(d) = 1

\* The places of the emitted tuples that hold clip c, as (tuple, position).
Uses(c) == { <<i, k>> \in (DOMAIN emitted) \X {1, 2} : emitted[i][k] = c }

\* The clips with key d that no emitted tuple holds.
Unused(d) == { c \in Range(clips) : criterion(c) = d /\ Uses(c) = {} }

\* C22: every clip of the input is held by at most one emitted tuple, at one
\* position of it; every clip held is a clip of the input; and when the pass
\* has ended, a group of odd size has one clip left unused and a group of even
\* size none.
C22_EachClipOnce ==
    /\ \A c \in Range(clips) : Cardinality(Uses(c)) <= 1
    /\ \A i \in DOMAIN emitted : \A k \in {1, 2} : emitted[i][k] \in Range(clips)
    /\ tpc = "done" =>
          \A d \in Durations : Cardinality(Unused(d)) = GroupSize(d) % 2

\* C22 witness: a finished pass over a group of five clips: two tuples, four
\* clips used, one left, the clips taken out of their input order.
C22_Witness ==
    /\ tpc = "done"
    /\ \E d \in Durations : GroupSize(d) = 5 /\ Cardinality(Unused(d)) = 1
    /\ Len(emitted) = 2
    /\ emitted[1][1].index > emitted[2][2].index

(***************************************************************************)
(* Batch padding and cropping.                                             *)
(*                                                                         *)
(* A tensor is a nested sequence.  An audio tensor has shape (1, T): one   *)
(* channel of T samples.  A video tensor has shape (C, T, H, W); the model *)
(* keeps C = H = W = 1.  The time length is shape[1] in both.              *)
(***************************************************************************)

\* The values a sample or a pixel takes in the model.
SampleValues == {0, 1}

Max2(a, b) == IF a >= b THEN a ELSE b

AudioTensor(row) == <<row>>
VideoTensor(row) == <<[t \in 1..Len(row) |-> <<<<row[t]>>>>]>>

\* x.shape of a tensor of the given rank (no dimension is empty).
RECURSIVE Shape(_, _)
Shape(x, rank) ==
    IF rank = 0 THEN <<>> ELSE <<Len(x)>> \o Shape(x[1], rank - 1)

RECURSIVE Zeros(_)
Zeros(shape) ==
    IF shape = <<>> THEN 0 ELSE [i \in 1..Head(shape) |-> Zeros(Tail(shape))]

\* A mutant of FPad: the padding goes in front of the data instead of after it.
RECURSIVE FPadSwapped(_, _, _)
FPadSwapped(x, rank, pad) ==
    IF rank = 0 THEN x
    ELSE LET here  == 2 * rank <= Len(pad)
             l     == IF here THEN pad[2 * rank] ELSE 0
             inner == [i \in 1..Len(x) |-> FPadSwapped(x[i], rank - 1, pad)]
             zero  == Zeros(Shape(inner[1], rank - 1))
         IN  [i \in 1..Max2(l, 0) |-> zero] \o inner

\* F.pad(x, pad, 'constant', 0): pad holds (left, right) for the last dimension,
\* then for the one before it, and so on; a negative amount removes elements.
RECURSIVE FPad(_, _, _)
FPad(x, rank, pad) ==
    IF rank = 0 THEN x
    ELSE LET here  == 2 * rank <= Len(pad)
             l     == IF here THEN pad[2 * rank - 1] ELSE 0
             r     == IF here THEN pad[2 * rank] ELSE 0
             inner == [i \in 1..Len(x) |-> FPad(x[i], rank - 1, pad)]
             zero  == Zeros(Shape(inner[1], rank - 1))
             kept  == SubSeq(inner, 1 + Max2(0 - l, 0), Len(inner) - Max2(0 - r, 0))
         IN  [i \in 1..Max2(l, 0) |-> zero] \o kept \o [i \in 1..Max2(r, 0) |-> zero]

\* A mutant of SliceTime: the last `size` time steps are kept instead of the first.
SliceTimeLast(x, size) ==
    [c \in 1..Len(x) |-> SubSeq(x[c], Len(x[c]) - size + 1, Len(x[c]))]

\* x[:, :size] and x[:, :size, :, :]: the first `size` time steps of every channel.
SliceTime(x, size) ==
    [c \in 1..Len(x) |-> SubSeq(x[c], 1, IF size < Len(x[c]) THEN size ELSE Len(x[c]))]

\* x.shape[1]
TimeLen(x) == Len(x[1])

\* min(x.shape[1] for x in xs) and max(...), of a non-empty batch.
MinTime(xs) ==
    CHOOSE m \in {TimeLen(xs[i]) : i \in DOMAIN xs} : \A i \in DOMAIN xs : m <= TimeLen(xs[i])
MaxTime(xs) ==
    CHOOSE m \in {TimeLen(xs[i]) : i \in DOMAIN xs} : \A i \in DOMAIN xs : m >= TimeLen(xs[i])

\* torch.stack: the tensors must have one shape.
Stack(ts, rank) ==
    IF \A i, j \in DOMAIN ts : Shape(ts[i], rank) = Shape(ts[j], rank)
    THEN [status |-> "ok", value |-> ts]
    ELSE [status |-> "RuntimeError"]

\* min() and max() of an empty sequence raise ValueError.
crop_audio_batch(audio) ==
    IF audio = <<>> THEN [status |-> "ValueError"]
    ELSE LET size == MinTime(audio) IN
         Stack([i \in DOMAIN audio |-> SliceTime(audio[i], size)], 2)

pad_audio_batch(audio) ==
    IF audio = <<>> THEN [status |-> "ValueError"]
    ELSE LET size == MaxTime(audio) IN
         Stack([i \in DOMAIN audio |->
                   FPad(audio[i], 2, <<0, size - TimeLen(audio[i])>>)], 2)

crop_video_batch(video) ==
    IF video = <<>> THEN [status |-> "ValueError"]
    ELSE LET size == MinTime(video) IN
         Stack([i \in DOMAIN video |-> SliceTime(video[i], size)], 4)

pad_video_batch(video) ==
    IF video = <<>> THEN [status |-> "ValueError"]
    ELSE LET size == MaxTime(video) IN
         Stack([i \in DOMAIN video |->
                   FPad(video[i], 4, <<0, 0, 0, 0, 0, size - TimeLen(video[i])>>)], 4)

\* The batch as audio tensors and as video tensors.
AudioBatch == [i \in DOMAIN rows |-> AudioTensor(rows[i])]
VideoBatch == [i \in DOMAIN rows |-> VideoTensor(rows[i])]

\* The sequences of 1..n values over time.
Rows(n) == UNION { [1..t -> SampleValues] : t \in 1..n }

BatchInit ==
    /\ ValIdle
    /\ RecallIdle
    /\ StatIdle
    /\ TripIdle
    /\ CfgIdle
    /\ WorkerIdle
    /\ IterIdle
    /\ CacheIdle
    /\ \E n \in 0..MaxBatch : rows \in [1..n -> Rows(MaxT)]
    /\ out = [op |-> "none"]

CallPadAudio ==
    /\ out.op = "none"
    /\ out' = [op |-> "pad_audio_batch", result |-> pad_audio_batch(AudioBatch)]
    /\ UNCHANGED <<rows, tripVars, cfgVars, workerVars, iterVars, cacheVars, recallVars, statVars, valVars>>

CallPadVideo ==
    /\ out.op = "none"
    /\ out' = [op |-> "pad_video_batch", result |-> pad_video_batch(VideoBatch)]
    /\ UNCHANGED <<rows, tripVars, cfgVars, workerVars, iterVars, cacheVars, recallVars, statVars, valVars>>

CallCropAudio ==
    /\ out.op = "none"
    /\ out' = [op |-> "crop_audio_batch", result |-> crop_audio_batch(AudioBatch)]
    /\ UNCHANGED <<rows, tripVars, cfgVars, workerVars, iterVars, cacheVars, recallVars, statVars, valVars>>

CallCropVideo ==
    /\ out.op = "none"
    /\ out' = [op |-> "crop_video_batch", result |-> crop_video_batch(VideoBatch)]
    /\ UNCHANGED <<rows, tripVars, cfgVars, workerVars, iterVars, cacheVars, recallVars, statVars, valVars>>

\* collate(data): zip(*[...]) of an empty list cannot be unpacked into two names.
CallCollate ==
    /\ out.op = "none"
    /\ out' = [op |-> "collate",
               result |-> IF rows = <<>> THEN [status |-> "ValueError"]
                          ELSE LET v == pad_video_batch(VideoBatch)
                                   a == pad_audio_batch(AudioBatch)
                               IN IF v.status # "ok" THEN v
                                  ELSE IF a.status # "ok" THEN a
                                  ELSE [status |-> "ok",
                                        value |-> [video |-> v.value, audio |-> a.value]]]
    /\ UNCHANGED <<rows, tripVars, cfgVars, workerVars, iterVars, cacheVars, recallVars, statVars, valVars>>

BatchNext ==
    \/ CallPadAudio
    \/ CallPadVideo
    \/ CallCropAudio
    \/ CallCropVideo
    \/ CallCollate

SpecBatch == BatchInit /\ [][BatchNext]_vars

\* The longest and the shortest time length of the batch.
LongestRow == CHOOSE m \in {Len(rows[i]) : i \in DOMAIN rows} : \A i \in DOMAIN rows : m >= Len(rows[i])
ShortestRow == CHOOSE m \in {Len(rows[i]) : i \in DOMAIN rows} : \A i \in DOMAIN rows : m <= Len(rows[i])

\* rows[i] followed by zeros up to length n, as an audio and as a video tensor.
PaddedRow(i, n) == [t \in 1..n |-> IF t <= Len(rows[i]) THEN rows[i][t] ELSE 0]
PaddedAudioOk(batch) ==
    /\ Len(batch) = Len(rows)
    /\ \A i \in DOMAIN rows : batch[i] = AudioTensor(PaddedRow(i, LongestRow))
PaddedVideoOk(batch) ==
    /\ Len(batch) = Len(rows)
    /\ \A i \in DOMAIN rows : batch[i] = VideoTensor(PaddedRow(i, LongestRow))

\* C5: for a non-empty batch, pad_audio_batch and pad_video_batch (also when
\* called by collate) return one element per input, each of the maximum time
\* length, made of the input unchanged followed by zeros only.
C5_PadToMax ==
    rows # <<>> =>
        /\ out.op = "pad_audio_batch" =>
               out.result.status = "ok" /\ PaddedAudioOk(out.result.value)
        /\ out.op = "pad_video_batch" =>
               out.result.status = "ok" /\ PaddedVideoOk(out.result.value)
        /\ out.op = "collate" =>
               /\ out.result.status = "ok"
               /\ PaddedAudioOk(out.result.value.audio)
               /\ PaddedVideoOk(out.result.value.video)

\* C5 witness: a video batch of elements of different lengths was padded, and
\* the shorter element holds a non-zero value.
C5_Witness ==
    /\ out.op = "pad_video_batch"
    /\ \E i, j \in DOMAIN rows :
          /\ Len(rows[i]) < Len(rows[j])
          /\ \E t \in DOMAIN rows[i] : rows[i][t] # 0

\* rows[i] cut to its first n values.
CroppedRow(i, n) == SubSeq(rows[i], 1, n)

\* C6: for a non-empty batch, crop_audio_batch and crop_video_batch return one
\* element per input, each the prefix of its input of the minimum time length.
C6_CropToMin ==
    rows # <<>> =>
        /\ out.op = "crop_audio_batch" =>
               /\ out.result.status = "ok"
               /\ Len(out.result.value) = Len(rows)
               /\ \A i \in DOMAIN rows :
                      out.result.value[i] = AudioTensor(CroppedRow(i, ShortestRow))
        /\ out.op = "crop_video_batch" =>
               /\ out.result.status = "ok"
               /\ Len(out.result.value) = Len(rows)
               /\ \A i \in DOMAIN rows :
                      out.result.value[i] = VideoTensor(CroppedRow(i, ShortestRow))

\* C6 witness: an audio batch of elements of different lengths was cropped, and
\* the longer element's first and last values differ.
C6_Witness ==
    /\ out.op = "crop_audio_batch"
    /\ \E i, j \in DOMAIN rows :
          /\ Len(rows[i]) < Len(rows[j])
          /\ rows[j][1] # rows[j][Len(rows[j])]

(***************************************************************************)
(* Cache key.                                                              *)
(*                                                                         *)
(* A configuration mapping is a Python dict: a sequence of (key, value)    *)
(* pairs with distinct keys, in insertion order.  Values are written as    *)
(* the JSON text json.dumps gives them.                                    *)
(***************************************************************************)

\* The keyword arguments of the model and the values each may take.
ConfigValues ==
    [split |-> {"[val]", "[test]"}, duration |-> {"2.3", "3.2"}, jitter |-> {"false", "true"}]
ConfigKeys == DOMAIN ConfigValues

\* The defaults of PeppaPigIterableDataset.__init__ for these parameters.
ConfigDefaults ==
    [split |-> "[val]", fragment_type |-> "dialog", duration |-> "3.2", jitter |-> "false"]

\* The dicts over the keys of the model: every order of every subset of the keys.
Dicts ==
    UNION { { d \in [1..n -> { <<k, v>> : k \in ConfigKeys, v \in {"[val]", "[test]", "2.3", "3.2", "false", "true"} }] :
                /\ \A i \in 1..n : d[i][2] \in ConfigValues[d[i][1]]
                /\ \A i, j \in 1..n : d[i][1] = d[j][1] => i = j }
            : n \in 0..Cardinality(ConfigKeys) }

\* Python's dict equality: the same keys with the same values, whatever the order.
DictEqual(a, b) == Range(a) = Range(b)

\* json.dumps(config): the items are written in the dict's insertion order.
RECURSIVE JsonDumps(_)
JsonDumps(config) ==
    IF config = <<>> THEN <<>>
    ELSE <<Head(config)[1], Head(config)[2]>> \o JsonDumps(Tail(config))

\* hashlib.sha256 over the encoded text.  SHA-256 is taken to be free of
\* collisions: the digest stands for the text hashed and for nothing else.
Sha256(text) == <<"sha256", text>>

config_id(config) == Sha256(JsonDumps(config))

\* PeppaPigDataset.__init__, lines 128-131: the directory of the item cache.
ItemsCacheDir(cache_dir, kw) ==
    IF cache_dir = <<"None">> THEN <<"data/out/items-", config_id(kw)>> ELSE cache_dir

\* The values of split that are a bare string, not a list (line 164).
BareStrings == {"val", "train"}

\* PeppaPigIterableDataset.__init__ (lines 156-177): ValueError for a split
\* that is a str, else the attributes the object has afterwards.  settings is
\* a copy of __dict__ taken when split, fragment_type, duration and jitter
\* (and target_size) are set, in the order __init__ sets them.
IterableDataset(kw) ==
    LET Arg(k) == IF \E j \in DOMAIN kw : kw[j][1] = k
                  THEN kw[CHOOSE j \in DOMAIN kw : kw[j][1] = k][2]
                  ELSE ConfigDefaults[k]
    IN IF Arg("split") \in BareStrings THEN [raised |-> "ValueError"]
       ELSE [split |-> Arg("split"), fragment_type |-> Arg("fragment_type"),
             duration |-> Arg("duration"), jitter |-> Arg("jitter"),
             settings |-> << <<"split", Arg("split")>>,
                             <<"fragment_type", Arg("fragment_type")>>,
                             <<"duration", Arg("duration")>>,
                             <<"jitter", Arg("jitter")>> >>]

\* PeppaPigIterableDataset.clip_dir: it reads self.permapath first, an attribute
\* that no code of the class sets.
clip_dir(self) ==
    IF "permapath" \notin DOMAIN self THEN <<"AttributeError">>
    ELSE IF self.permapath = <<"None">> THEN <<"data/out/clips-", config_id(self.settings)>>
    ELSE self.permapath

ConfigInit ==
    /\ ValIdle
    /\ RecallIdle
    /\ StatIdle
    /\ TripIdle
    /\ BatchIdle
    /\ WorkerIdle
    /\ IterIdle
    /\ CacheIdle
    /\ kwargs \in [Callers -> Dicts]
    /\ itemsDir = [c \in Callers |-> <<"unset">>]
    /\ clipsDir = [c \in Callers |-> <<"unset">>]

\* PeppaPigDataset(**kwargs) with cache_dir=None resolves its cache directory.
ResolveItemsDir(c) ==
    /\ itemsDir[c] = <<"unset">>
    /\ itemsDir' = [itemsDir EXCEPT ![c] = ItemsCacheDir(<<"None">>, kwargs[c])]
    /\ UNCHANGED <<kwargs, clipsDir, tripVars, batchVars, workerVars, iterVars, cacheVars, recallVars, statVars, valVars>>

\* PeppaPigIterableDataset(**kwargs).clip_dir()
ResolveClipDir(c) ==
    /\ clipsDir[c] = <<"unset">>
    /\ clipsDir' = [clipsDir EXCEPT ![c] = clip_dir(IterableDataset(kwargs[c]))]
    /\ UNCHANGED <<kwargs, itemsDir, tripVars, batchVars, workerVars, iterVars, cacheVars, recallVars, statVars, valVars>>

ConfigNext ==
    \E c \in Callers :
        \/ ResolveItemsDir(c)
        \/ ResolveClipDir(c)

SpecConfig == ConfigInit /\ [][ConfigNext]_vars

\* C1: two callers whose configuration mappings have identical content resolve
\* the same cache directory, whatever the order their keys were supplied in.
C1_SameConfigSameDir ==
    \A a, b \in Callers :
        /\ DictEqual(kwargs[a], kwargs[b])
        /\ itemsDir[a] # <<"unset">>
        /\ itemsDir[b] # <<"unset">>
        => itemsDir[a] = itemsDir[b]

(***************************************************************************)
(* Worker partitioning of the source files.                                *)
(*                                                                         *)
(* Every worker process runs _raw_clips on its own copy of the dataset:    *)
(* it lists the files itself, computes its range and opens its files.      *)
(***************************************************************************)

\* The episode directories of the chosen split, in the order of the range in
\* split_spec.
Episodes == <<1, 2>>

\* The .avi files of an episode directory, and all of them.
FilesOf(e) == { <<e, k>> : k \in 1..fileCount[e] }
AllFiles == UNION { FilesOf(e) : e \in DOMAIN fileCount }

\* The orders in which a set of files can be listed.
Orders(S) ==
    { q \in [1..Cardinality(S) -> S] : \A i, j \in DOMAIN q : q[i] = q[j] => i = j }

\* glob.glob: the files of one directory, in the order the file system lists
\* them, which is arbitrary (glob does not sort).
glob(e) == Orders(FilesOf(e))

\* The list comprehension of lines 224-226: the episodes in order, for each
\* the result of a glob call.
RECURSIVE Listings(_)
Listings(i) ==
    IF i > Len(Episodes) THEN { <<>> }
    ELSE { g \o rest : g \in glob(Episodes[i]), rest \in Listings(i + 1) }

\* A mutant of PerWorker: the quotient is rounded down.
PerWorkerFloor(n, w) == n \div w

\* int(math.ceil(len(paths) / float(num_workers)))
PerWorker(n, w) == (n + w - 1) \div w

Min2(a, b) == IF a <= b THEN a ELSE b

\* Lines 228-237: the range [first, last) of a worker over a list of n paths.
WorkerRange(id, n) ==
    IF numWorkers = 0
    THEN [first |-> 0, last |-> n]
    ELSE LET per_worker == PerWorker(n, numWorkers)
             first == id * per_worker
         IN [first |-> first, last |-> Min2(first + per_worker, n)]

\* paths[first:last] (the indices of a Python list start at 0).
PySlice(xs, first, last) ==
    LET hi == Min2(last, Len(xs)) IN
    IF first >= hi THEN <<>> ELSE SubSeq(xs, first + 1, hi)

\* The ids of the processes that run _raw_clips.
WorkerIds == 0..(IF numWorkers = 0 THEN 0 ELSE numWorkers - 1)

WorkerInit ==
    /\ ValIdle
    /\ RecallIdle
    /\ StatIdle
    /\ TripIdle
    /\ BatchIdle
    /\ CfgIdle
    /\ IterIdle
    /\ CacheIdle
    /\ fileCount \in [DOMAIN Episodes -> 0..MaxFilesPerEpisode]
    /\ numWorkers \in 0..MaxWorkers
    /\ wk = [w \in WorkerIds |-> [pc |-> "start", n |-> 0, first |-> 0, last |-> 0,
                                  assigned |-> <<>>, opened |-> <<>>]]

\* Lines 223-238: the worker lists the files (paths), computes its range and
\* takes paths[first:last]; n is len(paths).
RawClipsStart(w) ==
    /\ w \in WorkerIds
    /\ wk[w].pc = "start"
    /\ \E paths \in Listings(1) :
          LET r == WorkerRange(w, Len(paths)) IN
          wk' = [wk EXCEPT ![w] = [pc |-> "loop", n |-> Len(paths), first |-> r.first,
                                   last |-> r.last,
                                   assigned |-> PySlice(paths, r.first, r.last),
                                   opened |-> <<>>]]
    /\ UNCHANGED <<fileCount, numWorkers, tripVars, batchVars, cfgVars, iterVars, cacheVars, recallVars, statVars, valVars>>

\* The files the worker's loop goes through.
Assigned(w) == wk[w].assigned

\* Line 238-239: the loop opens the next file of paths[first:last].
RawClipsOpen(w) ==
    /\ w \in WorkerIds
    /\ wk[w].pc = "loop"
    /\ Len(wk[w].opened) < Len(Assigned(w))
    /\ wk' = [wk EXCEPT ![w].opened = Append(@, Assigned(w)[Len(@) + 1])]
    /\ UNCHANGED <<fileCount, numWorkers, tripVars, batchVars, cfgVars, iterVars, cacheVars, recallVars, statVars, valVars>>

\* The loop is exhausted: the generator returns.
RawClipsEnd(w) ==
    /\ w \in WorkerIds
    /\ wk[w].pc = "loop"
    /\ Len(wk[w].opened) = Len(Assigned(w))
    /\ wk' = [wk EXCEPT ![w].pc = "done"]
    /\ UNCHANGED <<fileCount, numWorkers, tripVars, batchVars, cfgVars, iterVars, cacheVars, recallVars, statVars, valVars>>

WorkerNext ==
    \E w \in 0..(MaxWorkers - 1) :
        \/ RawClipsStart(w)
        \/ RawClipsOpen(w)
        \/ RawClipsEnd(w)

SpecWorkers == WorkerInit /\ [][WorkerNext]_vars

\* The indices of a worker's range, and the workers that have computed theirs.
RangeOf(w) == { i \in 0..Cardinality(AllFiles) : wk[w].first <= i /\ i < wk[w].last }
Ranged == { w \in WorkerIds : wk[w].pc # "start" }

\* C8: the ranges the workers compute are pairwise disjoint, lie in worker
\* order one after the other and, once every worker has its range, cover
\* 0..n-1 with every index in exactly one range; without worker info the
\* single process has the range [0, n).
C8_RangesPartition ==
    LET n == Cardinality(AllFiles) IN
    /\ \A w \in Ranged : RangeOf(w) \subseteq 0..(n - 1)
    /\ \A a, b \in Ranged : a < b =>
           /\ RangeOf(a) \cap RangeOf(b) = {}
           /\ \A i \in RangeOf(a), j \in RangeOf(b) : i < j
    /\ Ranged = WorkerIds =>
           \A i \in 0..(n - 1) : Cardinality({ w \in WorkerIds : i \in RangeOf(w) }) = 1
    /\ (numWorkers = 0 /\ 0 \in Ranged) => (wk[0].first = 0 /\ wk[0].last = n)

\* C8 witness: more than one worker, all with their ranges, more files than
\* workers and a number of files that the number of workers does not divide.
C8_Witness ==
    /\ numWorkers > 1
    /\ Ranged = WorkerIds
    /\ Cardinality(AllFiles) > numWorkers
    /\ Cardinality(AllFiles) % numWorkers # 0

\* C9: whatever order the file system lists the files in, when all workers are
\* done every source file has been opened by exactly one worker (the workers
\* slice one and the same ordered list).
C9_NoFileDuplicatedOrSkipped ==
    (\A w \in WorkerIds : wk[w].pc = "done") =>
        \A f \in AllFiles :
            Cardinality({ <<w, i>> \in WorkerIds \X (1..Cardinality(AllFiles)) :
                             i <= Len(wk[w].opened) /\ wk[w].opened[i] = f }) = 1

(***************************************************************************)
(* Positive-pair iteration of PeppaPigIterableDataset.                     *)
(***************************************************************************)

\* The source files of the model.
Filenames == {1, 2}

\* What the class PeppaPigIterableDataset defines (lines 156-262).
Methods ==
    {"__init__", "featurize_clip", "_clips", "clip_dir", "_cache_clips", "_raw_clips",
     "_positives", "__iter__"}

\* The names bound where the except clause of _clips is evaluated.
ClipsNames == {"self", "clip"}

\* featurize_clip (lines 179-191): a Clip, or ValueError for a clip without frames.
featurize_clip(clip) ==
    IF clip.frames > 0
    THEN [raised |-> "none",
          value |-> [video |-> <<"video", clip.id>>, audio |-> <<"audio", clip.id>>,
                     filename |-> clip.filename]]
    ELSE [raised |-> "ValueError"]

\* The try block of _clips (lines 195-198) for one raw clip.  The body looks up
\* self._featurize_clip; the except clause is the expression ValueError(e),
\* evaluated when an exception reaches it.
ClipsTry(clip) ==
    LET body == IF "_featurize_clip" \in Methods
                THEN featurize_clip(clip)
                ELSE [raised |-> "AttributeError"]
    IN IF body.raised = "none" THEN [kind |-> "yield", value |-> body.value]
       ELSE IF "e" \notin ClipsNames THEN [kind |-> "raise", exc |-> "NameError"]
       ELSE IF body.raised = "ValueError" THEN [kind |-> "pass"]
       ELSE [kind |-> "raise", exc |-> body.raised]

\* next() on _clips with pos raw clips already pulled.
RECURSIVE ClipsPull(_)
ClipsPull(pos) ==
    IF pos >= Len(raw) THEN [kind |-> "stop", pos |-> pos]
    ELSE LET r == ClipsTry(raw[pos + 1]) IN
         IF r.kind = "pass" THEN ClipsPull(pos + 1)
         ELSE IF r.kind = "raise" THEN [kind |-> "raise", exc |-> r.exc, pos |-> pos + 1]
         ELSE [kind |-> "clip", clip |-> r.value, pos |-> pos + 1]

\* list(enumerate(items)) on a group of groupby: the group is read until the
\* key (the filename) changes or the clips end; the clip read beyond the group
\* is kept for the next group.
RECURSIVE CollectGroup(_, _)
CollectGroup(group, pos) ==
    LET r == ClipsPull(pos) IN
    IF r.kind = "stop" THEN [kind |-> "group", group |-> group, next |-> <<>>, pos |-> r.pos]
    ELSE IF r.kind = "raise" THEN r
    ELSE IF r.clip.filename = group[1].filename
         THEN CollectGroup(Append(group, r.clip), r.pos)
         ELSE [kind |-> "group", group |-> group, next |-> <<r.clip>>, pos |-> r.pos]

\* _positives (lines 251-257): for i, a: for j, b: if j == i: yield Pair(...);
\* enumerate counts from 0.
positives(items) ==
    LET n == Len(items)
        RECURSIVE Walk(_, _)
        Walk(i, j) ==
            IF i > n THEN <<>>
            ELSE IF j > n THEN Walk(i + 1, 1)
            ELSE (IF j = i
                  THEN <<[video |-> items[i].video, audio |-> items[j].audio,
                          video_idx |-> i - 1, audio_idx |-> j - 1]>>
                  ELSE <<>>) \o Walk(i, j + 1)
    IN Walk(1, 1)

\* The raw clips of the files, file after file: _raw_clips opens each file once.
RawStreams ==
    UNION { { r \in [1..n -> [filename : Filenames, frames : {0, 1}, id : 1..n]] :
                /\ \A i \in 1..n : r[i].id = i
                /\ \A i, j \in 1..n : i <= j => r[i].filename <= r[j].filename }
            : n \in 0..MaxRawClips }

IterInit ==
    /\ ValIdle
    /\ RecallIdle
    /\ StatIdle
    /\ TripIdle
    /\ BatchIdle
    /\ CfgIdle
    /\ WorkerIdle
    /\ CacheIdle
    /\ raw \in RawStreams
    /\ ipos = 0
    /\ lookahead = <<>>
    /\ pending = <<>>
    /\ yielded = <<>>
    /\ ipc = [at |-> "running"]

\* One next() of the consumer on __iter__ (lines 260-262): the next Pair of the
\* current group, or the first Pair of the next group, or the end, or the
\* exception that _clips lets through.
IterNextItem ==
    /\ ipc.at = "running"
    /\ IF pending # <<>>
       THEN /\ yielded' = Append(yielded, Head(pending))
            /\ pending' = Tail(pending)
            /\ UNCHANGED <<ipos, lookahead, ipc>>
       ELSE LET first == IF lookahead # <<>>
                         THEN [kind |-> "clip", clip |-> lookahead[1], pos |-> ipos]
                         ELSE ClipsPull(ipos)
            IN IF first.kind = "stop"
               THEN /\ ipc' = [at |-> "done"]
                    /\ ipos' = first.pos
                    /\ UNCHANGED <<lookahead, pending, yielded>>
               ELSE IF first.kind = "raise"
               THEN /\ ipc' = [at |-> "raised", exc |-> first.exc]
                    /\ ipos' = first.pos
                    /\ UNCHANGED <<lookahead, pending, yielded>>
               ELSE LET g == CollectGroup(<<first.clip>>, first.pos) IN
                    IF g.kind = "raise"
                    THEN /\ ipc' = [at |-> "raised", exc |-> g.exc]
                         /\ ipos' = g.pos
                         /\ lookahead' = <<>>
                         /\ UNCHANGED <<pending, yielded>>
                    ELSE /\ yielded' = Append(yielded, Head(positives(g.group)))
                         /\ pending' = Tail(positives(g.group))
                         /\ lookahead' = g.next
                         /\ ipos' = g.pos
                         /\ UNCHANGED ipc
    /\ UNCHANGED <<raw, tripVars, batchVars, cfgVars, workerVars, cacheVars, recallVars, statVars, valVars>>

IterNext == IterNextItem

SpecIter == IterInit /\ [][IterNext]_vars

\* The Pairs of the claim for the clips from position i on: one per clip, with
\* both indices the clip's position within the clips of its file.
RECURSIVE ExpectedPairs(_, _)
ExpectedPairs(i, k) ==
    IF i > Len(raw) THEN <<>>
    ELSE <<[video |-> <<"video", i>>, audio |-> <<"audio", i>>,
            video_idx |-> k, audio_idx |-> k]>>
         \o ExpectedPairs(i + 1, IF i < Len(raw) /\ raw[i + 1].filename = raw[i].filename
                                 THEN k + 1 ELSE 0)

\* C7: iterating a dataset whose clips all have frames ends normally, and the
\* Pairs received are, file after file, one Pair per clip in order, with
\* video_idx = audio_idx = the clip's index in its group and video and audio of
\* that clip.
C7_OnePairPerClip ==
    (ipc.at \in {"done", "raised"} /\ \A i \in DOMAIN raw : raw[i].frames > 0) =>
        /\ ipc.at = "done"
        /\ yielded = ExpectedPairs(1, 0)

\* The clips featurize_clip accepts: those with at least one decoded frame.
WithFrames == SelectSeq(raw, LAMBDA c : c.frames > 0)

\* The Pairs a sequence of featurized clips gives from position i on: one per
\* clip, indexed within the run of clips of its file.
RECURSIVE PairsFor(_, _, _)
PairsFor(cs, i, k) ==
    IF i > Len(cs) THEN <<>>
    ELSE <<[video |-> <<"video", cs[i].id>>, audio |-> <<"audio", cs[i].id>>,
            video_idx |-> k, audio_idx |-> k]>>
         \o PairsFor(cs, i + 1, IF i < Len(cs) /\ cs[i + 1].filename = cs[i].filename
                                THEN k + 1 ELSE 0)

\* C12: when some raw clip decodes to zero frames, the iteration still ends
\* normally: no exception reaches the consumer, the clip is skipped and the
\* Pairs of all the other clips, before and after it, are received in order.
C12_ZeroFrameClipSkipped ==
    (ipc.at \in {"done", "raised"} /\ \E i \in DOMAIN raw : raw[i].frames = 0) =>
        /\ ipc.at = "done"
        /\ yielded = PairsFor(WithFrames, 1, 0)

(***************************************************************************)
(* The item cache of PeppaPigDataset.                                       *)
(***************************************************************************)

Loaders == {1, 2}

\* What iterating a fresh PeppaPigIterableDataset over the sources gives: the
\* Pairs yielded, and the exception that ends the iteration, if any.
RECURSIVE IterRun(_, _, _)
IterRun(pos, look, acc) ==
    LET first == IF look # <<>>
                 THEN [kind |-> "clip", clip |-> look[1], pos |-> pos]
                 ELSE ClipsPull(pos)
    IN IF first.kind = "stop" THEN [items |-> acc, exc |-> "none"]
       ELSE IF first.kind = "raise" THEN [items |-> acc, exc |-> first.exc]
       ELSE LET g == CollectGroup(<<first.clip>>, first.pos) IN
            IF g.kind = "raise" THEN [items |-> acc, exc |-> g.exc]
            ELSE IterRun(g.pos, g.next, acc \o positives(g.group))

DatasetItems == IterRun(0, <<>>, <<>>)

\* The keyword arguments the loading processes pass: one configuration, its
\* keys given in either order.
LoadKwargs ==
    { << <<"split", "[val]">>, <<"duration", "3.2">> >>,
      << <<"duration", "3.2">>, <<"split", "[val]">> >> }

\* The values of the cache_dir argument: None, or a fixed directory such as
\* the one PigData.setup passes to from_directory.
FixedDir == <<"data/out/val_dialog_triplets">>
CacheDirArgs == { <<"None">>, FixedDir }

\* The directories the loads of the model resolve.
Dirs == { ItemsCacheDir(a, kw) : a \in CacheDirArgs, kw \in LoadKwargs }

\* An item file an earlier run left in the directory: a Pair of a clip that is
\* not among the clips of this run.
EarlierItem ==
    [video |-> <<"video", 0>>, audio |-> <<"audio", 0>>, video_idx |-> 0, audio_idx |-> 0]

AbsentDir == [exists |-> FALSE, settings |-> <<"absent">>, pt |-> <<>>, manifest |-> <<"absent">>]

IdleLoader ==
    [pc |-> "idle", cache |-> FALSE, cache_dir |-> <<"None">>, kwargs |-> <<>>,
     dir |-> <<"unset">>, i |-> 0, length |-> 0, exc |-> "none", after |-> FALSE,
     explicit |-> FALSE, got |-> [kind |-> "none"]]

\* The files named <index>.pt of a directory are kept as a function from the
\* index to the content saved.
PtCount(d) == Cardinality(DOMAIN disk[d].pt)

CacheInit ==
    /\ ValIdle
    /\ RecallIdle
    /\ StatIdle
    /\ TripIdle
    /\ BatchIdle
    /\ CfgIdle
    /\ WorkerIdle
    /\ raw \in { r \in RawStreams : Len(r) <= MaxSourceClips }
    /\ ipos = 0
    /\ lookahead = <<>>
    /\ pending = <<>>
    /\ yielded = <<>>
    /\ ipc = [at |-> "idle"]
    /\ \E fixed \in { AbsentDir,
                      [exists |-> TRUE, settings |-> <<"absent">>,
                       pt |-> (0 :> EarlierItem), manifest |-> <<"absent">>] } :
           disk = [d \in Dirs |-> IF d = FixedDir THEN fixed ELSE AbsentDir]
    /\ ld = [p \in Loaders |-> IdleLoader]
    /\ extractions = [d \in Dirs |-> 0]

\* A load with these arguments and cache=True has run its loop to the end and
\* finished: the cache of this configuration has been populated.
Populated(cache_dir, kw) ==
    \E q \in Loaders :
        /\ ld[q].pc = "ready"
        /\ ld[q].cache
        /\ ld[q].cache_dir = cache_dir
        /\ ld[q].kwargs = kw

\* PeppaPigDataset.__init__, lines 126-131: the arguments are bound, the
\* iterable dataset is built and the cache directory resolved.  The field
\* `explicit` records whether the caller gave the argument cache, and `after`
\* whether the cache of this configuration had been populated when the load
\* began.
Loading(cache, explicit, cache_dir, kw) ==
    [pc |-> IF cache THEN "makedirs" ELSE "check",
     cache |-> cache, cache_dir |-> cache_dir, kwargs |-> kw,
     dir |-> ItemsCacheDir(cache_dir, kw),
     i |-> 0, length |-> 0, exc |-> "none",
     after |-> Populated(cache_dir, kw),
     explicit |-> explicit, got |-> [kind |-> "none"]]

\* PeppaPigDataset(cache=..., cache_dir=..., **kw)
Construct(p, cache, cache_dir, kw) ==
    /\ ld[p].pc = "idle"
    /\ ld' = [ld EXCEPT ![p] = Loading(cache, TRUE, cache_dir, kw)]
    /\ UNCHANGED <<disk, extractions>>
    /\ UNCHANGED <<tripVars, batchVars, cfgVars, workerVars, iterVars, recallVars, statVars, valVars>>

\* PeppaPigDataset(cache_dir=..., **kw): the parameter cache takes its default,
\* True (line 126).
ConstructDefault(p, cache_dir, kw) ==
    /\ ld[p].pc = "idle"
    /\ ld' = [ld EXCEPT ![p] = Loading(TRUE, FALSE, cache_dir, kw)]
    /\ UNCHANGED <<disk, extractions>>
    /\ UNCHANGED <<tripVars, batchVars, cfgVars, workerVars, iterVars, recallVars, statVars, valVars>>

\* PeppaPigDataset.from_directory(directory), lines 151-153.
from_directory(p, directory) ==
    /\ ld[p].pc = "idle"
    /\ ld' = [ld EXCEPT ![p] = Loading(FALSE, TRUE, directory, <<>>)]
    /\ UNCHANGED <<disk, extractions>>
    /\ UNCHANGED <<tripVars, batchVars, cfgVars, workerVars, iterVars, recallVars, statVars, valVars>>

\* Line 133: os.makedirs(self.cache_dir, exist_ok=True)
MakeDirs(p) ==
    /\ ld[p].pc = "makedirs"
    /\ disk' = [disk EXCEPT ![ld[p].dir].exists = TRUE]
    /\ ld' = [ld EXCEPT ![p].pc = "settings"]
    /\ UNCHANGED extractions
    /\ UNCHANGED <<tripVars, batchVars, cfgVars, workerVars, iterVars, recallVars, statVars, valVars>>

\* Line 134: json.dump(kwargs, open(".../settings.json", "w"))
WriteSettings(p) ==
    /\ ld[p].pc = "settings"
    /\ IF disk[ld[p].dir].exists
       THEN /\ disk' = [disk EXCEPT ![ld[p].dir].settings = ld[p].kwargs]
            /\ ld' = [ld EXCEPT ![p].pc = "loop"]
       ELSE /\ ld' = [ld EXCEPT ![p].pc = "raised", ![p].exc = "FileNotFoundError"]
            /\ UNCHANGED disk
    /\ UNCHANGED extractions
    /\ UNCHANGED <<tripVars, batchVars, cfgVars, workerVars, iterVars, recallVars, statVars, valVars>>

\* Lines 135-137: the next step of `for i, item in enumerate(dataset)`: the
\* item is saved as <i>.pt, or the loop ends, or the iteration raises.  The
\* first step starts the iteration, which runs the clip extraction.
CacheItem(p) ==
    /\ ld[p].pc = "loop"
    /\ LET run == DatasetItems
           i   == ld[p].i
           d   == ld[p].dir
       IN /\ extractions' = [extractions EXCEPT ![d] = IF i = 0 THEN @ + 1 ELSE @]
          /\ IF i < Len(run.items)
             THEN IF disk[d].exists
                  THEN /\ disk' = [disk EXCEPT ![d].pt =
                                      [k \in DOMAIN @ \cup {i} |->
                                          IF k = i THEN run.items[i + 1] ELSE @[k]]]
                       /\ ld' = [ld EXCEPT ![p].i = i + 1]
                  ELSE /\ ld' = [ld EXCEPT ![p].pc = "raised",
                                           ![p].exc = "FileNotFoundError"]
                       /\ UNCHANGED disk
             ELSE IF run.exc # "none"
             THEN /\ ld' = [ld EXCEPT ![p].pc = "raised", ![p].exc = run.exc]
                  /\ UNCHANGED disk
             ELSE /\ ld' = [ld EXCEPT ![p].pc = "check"]
                  /\ UNCHANGED disk
    /\ UNCHANGED <<tripVars, batchVars, cfgVars, workerVars, iterVars, recallVars, statVars, valVars>>

\* Lines 138-140: the directory must exist; length is the number of *.pt files.
CheckAndCount(p) ==
    /\ ld[p].pc = "check"
    /\ IF disk[ld[p].dir].exists
       THEN ld' = [ld EXCEPT ![p].pc = "ready", ![p].length = PtCount(ld[p].dir)]
       ELSE ld' = [ld EXCEPT ![p].pc = "raised", ![p].exc = "FileNotFoundError"]
    /\ UNCHANGED <<disk, extractions>>
    /\ UNCHANGED <<tripVars, batchVars, cfgVars, workerVars, iterVars, recallVars, statVars, valVars>>

\* __len__ (lines 142-143)
len(p) == ld[p].length

\* __getitem__ (lines 145-149): IndexError at and beyond the length; otherwise
\* torch.load of <idx>.pt, which fails when there is no such file.
getitem(p, idx) ==
    IF idx >= len(p) THEN [kind |-> "IndexError", idx |-> idx]
    ELSE IF idx \in DOMAIN disk[ld[p].dir].pt
    THEN [kind |-> "item", idx |-> idx, item |-> disk[ld[p].dir].pt[idx]]
    ELSE [kind |-> "FileNotFoundError", idx |-> idx]

\* dataset[idx] on a dataset that has been constructed.
GetItem(p, idx) ==
    /\ ld[p].pc = "ready"
    /\ ld' = [ld EXCEPT ![p].got = getitem(p, idx)]
    /\ UNCHANGED <<disk, extractions>>
    /\ UNCHANGED <<tripVars, batchVars, cfgVars, workerVars, iterVars, recallVars, statVars, valVars>>

CacheNext ==
    \E p \in Loaders :
        \/ \E cache \in BOOLEAN, cache_dir \in CacheDirArgs, kw \in LoadKwargs :
               Construct(p, cache, cache_dir, kw)
        \/ \E cache_dir \in CacheDirArgs, kw \in LoadKwargs :
               ConstructDefault(p, cache_dir, kw)
        \/ from_directory(p, FixedDir)
        \/ MakeDirs(p)
        \/ WriteSettings(p)
        \/ CacheItem(p)
        \/ CheckAndCount(p)
        \/ \E idx \in 0..MaxSourceClips : GetItem(p, idx)

SpecCache == CacheInit /\ [][CacheNext]_vars

\* C10: once the cache of a configuration has been populated, no load with
\* the same configuration that begins later starts the clip extraction again.
C10_ExtractionOnlyOnFirstUse ==
    [][\A p \in Loaders :
          (ld'[p] # ld[p] /\ extractions' # extractions) => ~ld[p].after]_vars

\* C11: a load changes the cache directory only when its caller enabled
\* population explicitly (cache=True given), and a load with population
\* disabled that finds the directory missing fails with FileNotFoundError and
\* leaves the disk as it was.
C11_PopulationOnlyWhenEnabled ==
    [][\A p \in Loaders :
          /\ (ld'[p] # ld[p] /\ disk' # disk) => (ld[p].cache /\ ld[p].explicit)
          /\ (ld'[p] # ld[p] /\ ld[p].pc = "check" /\ ~ld[p].cache
                  /\ ~disk[ld[p].dir].exists) =>
                 /\ ld'[p].pc = "raised"
                 /\ ld'[p].exc = "FileNotFoundError"
                 /\ disk' = disk]_vars

(***************************************************************************)
(* The clip cache: PeppaPigIterableDataset._cache_clips and the lookup of  *)
(* PeppaTripletDataset._cache_clips.                                       *)
(*                                                                         *)
(* A raw clip is [filename, offset, duration, frames]; the content of a    *)
(* clip file is the raw clip written to it.  The processes are those of    *)
(* Loaders; disk holds the clip directories.                               *)
(***************************************************************************)

\* The raw clips of the source files, file after file: pig.preprocess.segment
\* cuts each file into clips at increasing offsets.  A clip may have duration 0
\* and a clip with a duration may still decode to no frame.
ClipKinds == { [duration |-> 1, frames |-> 1], [duration |-> 1, frames |-> 0],
               [duration |-> 0, frames |-> 0] }

Sources ==
    UNION { { r \in [1..n -> [filename : Filenames, offset : 0..(n - 1),
                              duration : {0, 1}, frames : {0, 1}]] :
                /\ \A i \in 1..n : [duration |-> r[i].duration, frames |-> r[i].frames] \in ClipKinds
                /\ \A i, j \in 1..n : i <= j => r[i].filename <= r[j].filename
                /\ \A i \in 1..n :
                      r[i].offset = Cardinality({ j \in 1..(i - 1) : r[j].filename = r[i].filename }) }
            : n \in 0..MaxCachedClips }

\* The values of the attribute permapath that clip_dir reads (lines 200-204).
\* __init__ does not set it; the code that uses the dataset may assign it.
Permapaths == { <<"unset">>, <<"None">> }

\* The keyword arguments the datasets of the processes are built with: the
\* defaults, a split that fragment type narration does not define, and a
\* split given as a bare string.
ClipKwargs ==
    { <<>>,
      << <<"split", "[train]">>, <<"fragment_type", "narration">> >>,
      << <<"split", "val">> >> }

\* self.split_spec (lines 173-177): the splits each fragment type defines.
split_spec == [dialog |-> {"train", "val", "test"}, narration |-> {"val", "test"}]

\* The names in a split list.
SplitNames == ("[val]" :> {"val"}) @@ ("[test]" :> {"test"}) @@ ("[train]" :> {"train"})

\* The arguments name a split that the fragment type does not define, or give
\* the split as a bare string.
InvalidSplit(kw) ==
    LET self == IterableDataset(kw \o << <<"split", "[val]">> >>)
        split == IF \E j \in DOMAIN kw : kw[j][1] = "split"
                 THEN kw[CHOOSE j \in DOMAIN kw : kw[j][1] = "split"][2]
                 ELSE ConfigDefaults.split
    IN \/ split \in BareStrings
       \/ ~(SplitNames[split] \subseteq split_spec[self.fragment_type])

\* The dataset object of a process: PeppaPigIterableDataset(**kw) as __init__
\* leaves it, with permapath as assigned, if at all.
Dataset(kw, perm) ==
    LET self == IterableDataset(kw)
    IN IF self = [raised |-> "ValueError"] \/ perm = <<"unset">> THEN self
       ELSE [k \in DOMAIN self \cup {"permapath"} |->
                IF k = "permapath" THEN perm ELSE self[k]]

ClipDirs ==
    { clip_dir(Dataset(kw, perm)) :
        kw \in { k \in ClipKwargs : IterableDataset(k) # [raised |-> "ValueError"] },
        perm \in Permapaths \ { <<"unset">> } }

AbsentClipDir ==
    [exists |-> FALSE, settings |-> <<"absent">>, mp4 |-> <<>>,
     manifest |-> [exists |-> FALSE, clip_info |-> <<>>]]

\* A process that holds no dataset object.
NoDataset == [raised |-> "none"]

IdleProcess ==
    [pc |-> "idle", kw |-> <<>>, self |-> NoDataset, via |-> "none", dir |-> <<"unset">>,
     stream |-> <<>>, i |-> 0, clip_info |-> <<>>, exc |-> "none", rerun |-> FALSE]

\* The call that process p begins is a rerun after a crash: a process has
\* died while populating, and no other process is at work.
Rerun(p) ==
    /\ \E q \in Loaders \ {p} : ld[q].pc = "crashed"
    /\ \A q \in Loaders \ {p} : ld[q].pc \in {"idle", "crashed"}

\* The source files present, and the orders glob.glob may list them in
\* (line 226: the listing is used as returned).
SourceFiles == { raw[i].filename : i \in DOMAIN raw }

\* The clips _raw_clips yields for a listing: the clips of each file, in the
\* order of the listing (lines 238-248).
RECURSIVE raw_clips(_)
raw_clips(paths) ==
    IF paths = <<>> THEN <<>>
    ELSE SelectSeq(raw, LAMBDA c : c.filename = Head(paths)) \o raw_clips(Tail(paths))

ClipsInit ==
    /\ ValIdle
    /\ RecallIdle
    /\ StatIdle
    /\ TripIdle
    /\ BatchIdle
    /\ CfgIdle
    /\ WorkerIdle
    /\ raw \in Sources
    /\ ipos = 0
    /\ lookahead = <<>>
    /\ pending = <<>>
    /\ yielded = <<>>
    /\ ipc = [at |-> "idle"]
    /\ disk = [d \in ClipDirs |-> AbsentClipDir]
    /\ ld = [p \in Loaders |-> IdleProcess]
    /\ extractions = <<>>

\* The listings glob.glob may return for the files of the episode directory:
\* any order (line 226; the listing is used as returned).
ClipListings == UNION { Orders(S) : S \in SUBSET Filenames }

\* dataset = PeppaPigIterableDataset(**kw); dataset._cache_clips() (line 206).
CallCacheClips(p, kw, perm) ==
    /\ ld[p].pc = "idle"
    /\ LET self == Dataset(kw, perm) IN
       IF self = [raised |-> "ValueError"]
       THEN ld' = [ld EXCEPT ![p] = [IdleProcess EXCEPT !.pc = "raised", !.kw = kw,
                                                      !.via = "direct", !.exc = "ValueError"]]
       ELSE ld' = [ld EXCEPT ![p] = [IdleProcess EXCEPT !.pc = "cache_clips", !.kw = kw,
                                                      !.self = self, !.via = "direct",
                                                      !.rerun = Rerun(p)]]
    /\ UNCHANGED <<disk, extractions>>
    /\ UNCHANGED <<tripVars, batchVars, cfgVars, workerVars, iterVars, recallVars, statVars, valVars>>

\* The process is between the call of _cache_clips and its return.
Populating(p) ==
    ld[p].pc \in {"cache_clips", "settings", "list", "loop", "writing", "manifest"}

\* A mutant of TripletCacheClips: a single-producer check, the call gives up
\* while another process populates a cache.
TripletCacheClipsGuarded(p, perm) ==
    /\ ld[p].pc = "idle"
    /\ ld' = [ld EXCEPT ![p] = [IdleProcess EXCEPT !.pc = IF \E q \in Loaders : Populating(q)
                                                          THEN "raised" ELSE "cache_clips",
                                                  !.self = Dataset(<<>>, perm),
                                                  !.via = "triplet"]]
    /\ UNCHANGED <<disk, extractions>>
    /\ UNCHANGED <<tripVars, batchVars, cfgVars, workerVars, iterVars, recallVars, statVars, valVars>>

\* PeppaTripletDataset._cache_clips, lines 82-86, with self.dataset a dataset
\* with default arguments: the file name is formed with
\* self.dataset.clip_dir() before anything is opened; the manifest is read,
\* or, on FileNotFoundError only, self.dataset._cache_clips() is called.
TripletCacheClips(p, perm) ==
    /\ ld[p].pc = "idle"
    /\ LET self == Dataset(<<>>, perm)
           d    == clip_dir(self)
       IN IF d = <<"AttributeError">>
          THEN ld' = [ld EXCEPT ![p] = [IdleProcess EXCEPT !.pc = "raised", !.self = self,
                                                         !.via = "triplet",
                                                         !.exc = "AttributeError"]]
          ELSE IF disk[d].manifest.exists
          THEN ld' = [ld EXCEPT ![p] = [IdleProcess EXCEPT !.pc = "loaded", !.self = self,
                                                         !.via = "triplet", !.dir = d,
                                                         !.clip_info = disk[d].manifest.clip_info]]
          ELSE ld' = [ld EXCEPT ![p] = [IdleProcess EXCEPT !.pc = "cache_clips", !.self = self,
                                                         !.via = "triplet",
                                                         !.rerun = Rerun(p)]]
    /\ UNCHANGED <<disk, extractions>>
    /\ UNCHANGED <<tripVars, batchVars, cfgVars, workerVars, iterVars, recallVars, statVars, valVars>>

\* Lines 207-209: self.clip_info = {}; os.makedirs(self.clip_dir(), exist_ok=True)
ClipsMakeDirs(p) ==
    /\ ld[p].pc = "cache_clips"
    /\ LET d == clip_dir(ld[p].self) IN
       IF d = <<"AttributeError">>
       THEN /\ ld' = [ld EXCEPT ![p].pc = "raised", ![p].exc = "AttributeError"]
            /\ UNCHANGED disk
       ELSE /\ ld' = [ld EXCEPT ![p].pc = "settings", ![p].dir = d, ![p].clip_info = <<>>]
            /\ disk' = [disk EXCEPT ![d].exists = TRUE]
    /\ UNCHANGED extractions
    /\ UNCHANGED <<tripVars, batchVars, cfgVars, workerVars, iterVars, recallVars, statVars, valVars>>

\* Line 210: json.dump(self.settings, open(".../settings.json", "w"), indent=2)
ClipsWriteSettings(p) ==
    /\ ld[p].pc = "settings"
    /\ disk' = [disk EXCEPT ![ld[p].dir].settings = ld[p].self.settings]
    /\ ld' = [ld EXCEPT ![p].pc = "list"]
    /\ UNCHANGED extractions
    /\ UNCHANGED <<tripVars, batchVars, cfgVars, workerVars, iterVars, recallVars, statVars, valVars>>

\* Line 211, the first next() on self._raw_clips(): lines 223-237 look up the
\* episodes of each split (KeyError for a split that split_spec does not have
\* for the fragment type) and list the files; in the calling process
\* get_worker_info() is None and the range is the whole listing.
RawClipsList(p, paths) ==
    /\ ld[p].pc = "list"
    /\ Range(paths) = SourceFiles
    /\ IF SplitNames[ld[p].self.split] \subseteq split_spec[ld[p].self.fragment_type]
       THEN ld' = [ld EXCEPT ![p].pc = "loop", ![p].stream = raw_clips(paths), ![p].i = 0]
       ELSE ld' = [ld EXCEPT ![p].pc = "raised", ![p].exc = "KeyError"]
    /\ UNCHANGED <<disk, extractions>>
    /\ UNCHANGED <<tripVars, batchVars, cfgVars, workerVars, iterVars, recallVars, statVars, valVars>>

\* The manifest entry of clip number i (lines 213-216).
ClipInfo(d, i, clip) ==
    [path |-> <<d, i>>, filename |-> clip.filename, offset |-> clip.offset,
     duration |-> clip.duration]

\* A mutant of ClipsLoop: the manifest is dumped inside the loop, each time an
\* entry is added, before the clip file is written.
ClipsLoopDumpsManifest(p) ==
    /\ ld[p].pc = "loop"
    /\ LET i == ld[p].i
           d == ld[p].dir
       IN IF i >= Len(ld[p].stream)
          THEN /\ ld' = [ld EXCEPT ![p].pc = "manifest"]
               /\ UNCHANGED disk
          ELSE LET clip == ld[p].stream[i + 1]
                   info == [k \in DOMAIN ld[p].clip_info \cup {i} |->
                               IF k = i THEN ClipInfo(d, i, clip) ELSE ld[p].clip_info[k]]
               IN IF clip.duration > 0
                  THEN /\ ld' = [ld EXCEPT ![p].pc = "writing", ![p].clip_info = info]
                       /\ disk' = [disk EXCEPT ![d].mp4 =
                                      [k \in DOMAIN @ \cup {i} |->
                                          IF k = i THEN [clip |-> clip, complete |-> FALSE]
                                          ELSE @[k]],
                                               ![d].manifest =
                                      [exists |-> TRUE, clip_info |-> info]]
                  ELSE /\ ld' = [ld EXCEPT ![p].i = i + 1]
                       /\ UNCHANGED disk
    /\ UNCHANGED extractions
    /\ UNCHANGED <<tripVars, batchVars, cfgVars, workerVars, iterVars, recallVars, statVars, valVars>>

\* Lines 211-218, one turn of the loop up to the call of write_videofile: the
\* clip is given its entry when clip.duration > 0, and the file <i>.mp4 is
\* opened for writing; after the last clip the loop ends.
ClipsLoop(p) ==
    /\ ld[p].pc = "loop"
    /\ LET i == ld[p].i
           d == ld[p].dir
       IN IF i >= Len(ld[p].stream)
          THEN /\ ld' = [ld EXCEPT ![p].pc = "manifest"]
               /\ UNCHANGED disk
          ELSE LET clip == ld[p].stream[i + 1] IN
               IF clip.duration > 0
               THEN /\ ld' = [ld EXCEPT ![p].pc = "writing",
                                        ![p].clip_info =
                                            [k \in DOMAIN @ \cup {i} |->
                                                IF k = i THEN ClipInfo(d, i, clip) ELSE @[k]]]
                    /\ disk' = [disk EXCEPT ![d].mp4 =
                                   [k \in DOMAIN @ \cup {i} |->
                                       IF k = i THEN [clip |-> clip, complete |-> FALSE]
                                       ELSE @[k]]]
               ELSE /\ ld' = [ld EXCEPT ![p].i = i + 1]
                    /\ UNCHANGED disk
    /\ UNCHANGED extractions
    /\ UNCHANGED <<tripVars, batchVars, cfgVars, workerVars, iterVars, recallVars, statVars, valVars>>

\* Line 218: clip.write_videofile returns, the file is complete.
ClipsWritten(p) ==
    /\ ld[p].pc = "writing"
    /\ LET i == ld[p].i
           d == ld[p].dir
       IN disk' = [disk EXCEPT ![d].mp4 =
                      [k \in DOMAIN @ \cup {i} |->
                          IF k = i THEN [clip |-> ld[p].stream[i + 1], complete |-> TRUE]
                          ELSE @[k]]]
    /\ ld' = [ld EXCEPT ![p].pc = "loop", ![p].i = @ + 1]
    /\ UNCHANGED extractions
    /\ UNCHANGED <<tripVars, batchVars, cfgVars, workerVars, iterVars, recallVars, statVars, valVars>>

\* Line 219: json.dump(self.clip_info, open(".../clip_info.json", "w"), indent=2)
ClipsWriteManifest(p) ==
    /\ ld[p].pc = "manifest"
    /\ disk' = [disk EXCEPT ![ld[p].dir].manifest =
                                [exists |-> TRUE, clip_info |-> ld[p].clip_info]]
    /\ ld' = [ld EXCEPT ![p].pc = "done"]
    /\ UNCHANGED extractions
    /\ UNCHANGED <<tripVars, batchVars, cfgVars, workerVars, iterVars, recallVars, statVars, valVars>>

\* The process dies while it populates the cache; what it wrote stays.
ClipsCrash(p) ==
    /\ Populating(p)
    /\ ld' = [ld EXCEPT ![p].pc = "crashed"]
    /\ UNCHANGED <<disk, extractions>>
    /\ UNCHANGED <<tripVars, batchVars, cfgVars, workerVars, iterVars, recallVars, statVars, valVars>>

ClipsNext ==
    \E p \in Loaders :
        \/ \E kw \in ClipKwargs, perm \in Permapaths : CallCacheClips(p, kw, perm)
        \/ \E perm \in Permapaths : TripletCacheClips(p, perm)
        \/ ClipsMakeDirs(p)
        \/ ClipsWriteSettings(p)
        \/ \E paths \in ClipListings : RawClipsList(p, paths)
        \/ ClipsLoop(p)
        \/ ClipsWritten(p)
        \/ ClipsWriteManifest(p)
        \/ ClipsCrash(p)

SpecClips == ClipsInit /\ [][ClipsNext]_vars

\* The raw clip a manifest entry refers to.
SourceClip(info) ==
    CHOOSE c \in Range(raw) : c.filename = info.filename /\ c.offset = info.offset

\* C13: every entry of a manifest on disk refers to a clip with duration > 0
\* and at least one decoded frame, and no clip file holds a clip without
\* frames.
C13_NoZeroFrameClipCached ==
    \A d \in DOMAIN disk :
        /\ \A i \in DOMAIN disk[d].manifest.clip_info :
              /\ disk[d].manifest.clip_info[i].duration > 0
              /\ SourceClip(disk[d].manifest.clip_info[i]).frames > 0
        /\ \A i \in DOMAIN disk[d].mp4 : disk[d].mp4[i].clip.frames > 0

\* C14: two population runs with the same configuration over the same sources
\* end with the same manifest: the same indices, and the same entry for each.
C14_ManifestStable ==
    \A p, q \in Loaders :
        (/\ ld[p].pc = "done"
         /\ ld[q].pc = "done"
         /\ DictEqual(ld[p].self.settings, ld[q].self.settings))
        => ld[p].clip_info = ld[q].clip_info

\* C15: a process whose dataset was asked for with an invalid split has got
\* its error at construction: it holds no dataset, and it has created no
\* directory and written no file.
C15_InvalidSplitFailsAtConstruction ==
    \A p \in Loaders :
        (ld[p].pc # "idle" /\ InvalidSplit(ld[p].kw)) =>
            /\ ld[p].pc = "raised"
            /\ ld[p].self = NoDataset
            /\ ld[p].dir = <<"unset">>

\* C17: nothing guards the population: a PeppaTripletDataset._cache_clips that
\* finds no manifest goes on to populate the directory whatever the other
\* processes are doing, and one that finds the manifest only reads: it leaves
\* the directory as it is.
C17_UnguardedPopulation ==
    [][\A p \in Loaders :
          (ld[p].pc = "idle" /\ ld'[p].pc # "idle" /\ ld'[p].via = "triplet"
              /\ "permapath" \in DOMAIN ld'[p].self) =>
             LET d == clip_dir(ld'[p].self) IN
             /\ disk' = disk
             /\ ~disk[d].manifest.exists => ld'[p].pc = "cache_clips"
             /\ disk[d].manifest.exists => ld'[p].pc = "loaded"]_vars

\* C17 witness: two processes found the cache absent and are both writing a
\* clip file into the same directory.
C17_Witness ==
    \E p, q \in Loaders :
        /\ p # q
        /\ ld[p].via = "triplet"
        /\ ld[q].via = "triplet"
        /\ ld[p].pc = "writing"
        /\ ld[q].pc = "writing"
        /\ ld[p].dir = ld[q].dir

\* The clip directory an uninterrupted run of process q on an absent
\* directory ends with: settings.json, the file and the entry of every clip
\* of its stream with duration > 0, and nothing else.
CleanRun(q) ==
    LET kept == { i \in 0..(Len(ld[q].stream) - 1) : ld[q].stream[i + 1].duration > 0 }
    IN [exists |-> TRUE,
        settings |-> ld[q].self.settings,
        mp4 |-> [i \in kept |-> [clip |-> ld[q].stream[i + 1], complete |-> TRUE]],
        manifest |-> [exists |-> TRUE,
                      clip_info |-> [i \in kept |-> ClipInfo(ld[q].dir, i, ld[q].stream[i + 1])]]]

\* C18: when a population has crashed and a rerun, alone, has come to its end,
\* the directory is what an uninterrupted run leaves: nothing of the crashed
\* run is left in it.
C18_RerunRecovers ==
    \A q \in Loaders :
        (/\ ld[q].pc = "done"
         /\ ld[q].rerun
         /\ \A p \in Loaders \ {q} : ld[p].pc \in {"idle", "crashed"})
        => disk[ld[q].dir] = CleanRun(q)

\* The entries of the manifest of directory d all have their file: <i>.mp4 is
\* there, completely written, holds the clip the entry describes, and is the
\* path recorded.
ManifestBacked(d) ==
    \A i \in DOMAIN disk[d].manifest.clip_info :
        LET info == disk[d].manifest.clip_info[i] IN
        /\ info.path = <<d, i>>
        /\ i \in DOMAIN disk[d].mp4
        /\ disk[d].mp4[i].complete
        /\ disk[d].mp4[i].clip.filename = info.filename
        /\ disk[d].mp4[i].clip.offset = info.offset

\* The processes that have called _cache_clips on directory d.
Producers(d) == { p \in Loaders : ld[p].dir = d /\ ld[p].pc # "loaded" }

\* C20 as stated: in every reachable state a manifest on disk lists only clips
\* whose file has been completely written and is the file of that clip.
C20_ManifestLast ==
    \A d \in DOMAIN disk : disk[d].manifest.exists => ManifestBacked(d)

\* C20 as amended: as long as a single run of _cache_clips has written to a
\* directory, a manifest exists there only when that run has ended, and it
\* lists only clips whose file has been completely written and is the file of
\* that clip; after a crash of that run there is no manifest.
C20_ManifestLastSingleRun ==
    \A d \in DOMAIN disk :
        (disk[d].manifest.exists /\ Cardinality(Producers(d)) <= 1) =>
            /\ ManifestBacked(d)
            /\ \A p \in Producers(d) : ld[p].pc = "done"

\* C20 witness: a single run has ended and its manifest lists a clip.
C20_Witness ==
    \E d \in DOMAIN disk :
        /\ disk[d].manifest.exists
        /\ Cardinality(Producers(d)) = 1
        /\ DOMAIN disk[d].manifest.clip_info # {}
        /\ \E i \in DOMAIN ld[CHOOSE p \in Producers(d) : TRUE].stream :
              ld[CHOOSE p \in Producers(d) : TRUE].stream[i].duration = 0

\* C21: a dataset constructed with cache=True has the length of the items its
\* iterable dataset yielded in this run, dataset[idx] below the length is the
\* item this run cached at idx, and dataset[idx] at or beyond the length raises
\* IndexError, whatever item files the directory held before.
C21_LengthIsThisRun ==
    \A p \in Loaders :
        (ld[p].pc = "ready" /\ ld[p].cache) =>
            /\ len(p) = Len(DatasetItems.items)
            /\ ld[p].got.kind # "none" =>
                  IF ld[p].got.idx >= len(p)
                  THEN ld[p].got.kind = "IndexError"
                  ELSE /\ ld[p].got.kind = "item"
                       /\ ld[p].got.idx < Len(DatasetItems.items)
                       /\ ld[p].got.item = DatasetItems.items[ld[p].got.idx + 1]

(***************************************************************************)
(* Retrieval score: recall at n over video and audio embeddings.           *)
(*                                                                         *)
(* An embedding is a vector of two integers.  retrieval_score builds the   *)
(* correctness matrix and takes the mean; recall_at_n is pig.metrics, which *)
(* is described in the specification of the system only: for each query,   *)
(* whether a correct candidate is among the n candidates most similar to   *)
(* it.  Which of several equally similar candidates come first is left     *)
(* open there, and is any order here.                                      *)
(***************************************************************************)

EmbeddingValues == { <<1, 0>>, <<1, 1>>, <<2, 2>> }

Dot(a, b) == a[1] * b[1] + a[2] * b[2]

SignedSquare(t) == IF t >= 0 THEN t * t ELSE -(t * t)

\* The cosine similarity of q and x is greater than that of q and y:
\* q.x / (|q| |x|) > q.y / (|q| |y|), compared without roots.
MoreSimilar(q, x, y) ==
    SignedSquare(Dot(q, x)) * Dot(y, y) > SignedSquare(Dot(q, y)) * Dot(x, x)

\* A mutant of eye: the ones are next to the diagonal.
eyeShifted(n) == [i \in 1..n |-> [j \in 1..n |-> IF j = (i % n) + 1 THEN 1 ELSE 0]]

\* torch.eye(V.shape[0]) (evaluation.py 126, models.py 218 and 224).
eye(n) == [i \in 1..n |-> [j \in 1..n |-> IF i = j THEN 1 ELSE 0]]

\* The sets of candidates that can be the n most similar to query q: n of
\* them (all, when there are fewer), none less similar to the query than a
\* candidate left out.
TopN(q, n) ==
    { T \in SUBSET DOMAIN vemb :
        /\ Cardinality(T) = Min2(n, Len(vemb))
        /\ \A j \in T : \A k \in DOMAIN vemb \ T :
              ~MoreSimilar(aemb[q], vemb[k], vemb[j]) }

\* recall_at_n for one query, given its n nearest candidates.
recall_at_n(q, T, correct) == \E j \in T : correct[q][j] = 1

Embeddings(n) == [1..n -> EmbeddingValues]

RecallInit ==
    /\ ValIdle
    /\ TripIdle
    /\ BatchIdle
    /\ CfgIdle
    /\ WorkerIdle
    /\ IterIdle
    /\ CacheIdle
    /\ StatIdle
    /\ \E n \in 1..MaxEmb : vemb \in Embeddings(n) /\ aemb \in Embeddings(n)
    /\ topn \in 1..MaxN
    /\ hits = <<>>
    /\ rec = [pc |-> "scoring"]

\* recall_at_n(V, A, correct=correct, n=n) for the next query.
ScoreQuery(T) ==
    /\ rec.pc = "scoring"
    /\ Len(hits) < Len(aemb)
    /\ T \in TopN(Len(hits) + 1, topn)
    /\ hits' = Append(hits, recall_at_n(Len(hits) + 1, T, eye(Len(vemb))))
    /\ UNCHANGED <<vemb, aemb, topn, rec>>
    /\ UNCHANGED <<tripVars, batchVars, cfgVars, workerVars, iterVars, cacheVars, statVars, valVars>>

\* .mean().item(): the share of the queries that were hits, as a fraction.
ScoreMean ==
    /\ rec.pc = "scoring"
    /\ Len(hits) = Len(aemb)
    /\ rec' = [pc |-> "done",
               rec10 |-> <<Cardinality({ q \in DOMAIN hits : hits[q] }), Len(hits)>>]
    /\ UNCHANGED <<vemb, aemb, topn, hits>>
    /\ UNCHANGED <<tripVars, batchVars, cfgVars, workerVars, iterVars, cacheVars, statVars, valVars>>

RecallNext ==
    \/ \E T \in SUBSET (1..MaxEmb) : ScoreQuery(T)
    \/ ScoreMean

SpecRecall == RecallInit /\ [][RecallNext]_vars

\* No candidate is as similar to a query as the query's own match.
NoTies ==
    \A q \in DOMAIN aemb : \A j \in DOMAIN vemb \ {q} :
        MoreSimilar(aemb[q], vemb[q], vemb[j])

VideoChannels == 1..3
AudioChannels == 1..1

\* A clip of the sample: frames is a sequence of (r, g, b) pixels, one per
\* frame; samples is the audio signal.
StatClip(frames, samples) ==
    [video |-> [c \in VideoChannels |-> [t \in 1..Len(frames) |-> <<<<frames[t][c]>>>>]],
     audio |-> <<samples>>]

StatClips ==
    { StatClip(<< <<1, 0, 2>> >>, <<1>>),
      StatClip(<< <<0, 2, 2>> >>, <<3, 1>>),
      StatClip(<< <<1, 1, 0>>, <<3, 0, 1>> >>, <<2, 0>>),
      StatClip(<< <<2, 2, 2>>, <<0, 1, 3>> >>, <<1>>) }

\* DataLoader(dataset, batch_size = b): the clips in order, b at a time, the last
\* chunk with what is left.
Chunks(dataset, b) ==
    [k \in 1..((Len(dataset) + b - 1) \div b) |->
        SubSeq(dataset, (k - 1) * b + 1,
               IF k * b < Len(dataset) THEN k * b ELSE Len(dataset))]

\* collate(data) of a non-empty chunk.
collate(chunk) ==
    [video |-> pad_video_batch([i \in DOMAIN chunk |-> chunk[i].video]).value,
     audio |-> pad_audio_batch([i \in DOMAIN chunk |-> chunk[i].audio]).value]

DataLoader(dataset, b) ==
    [k \in DOMAIN Chunks(dataset, b) |-> collate(Chunks(dataset, b)[k])]

\* x.sum() of a tensor of the given rank.
RECURSIVE TensorSum(_, _)
TensorSum(x, rank) ==
    IF rank = 0 THEN x
    ELSE IF x = <<>> THEN 0
    ELSE TensorSum(Head(x), rank - 1) + TensorSum(Tail(x), rank)

\* torch.ones_like(x)
RECURSIVE ones_like(_, _)
ones_like(x, rank) ==
    IF rank = 0 THEN 1 ELSE [i \in 1..Len(x) |-> ones_like(x[i], rank - 1)]

\* x.sum(dim=(0,2,3,4), keepdim=True) and x.sum(dim=(0,2), keepdim=True) at
\* channel c, of a batch x of the given rank: every dimension but the second is
\* summed.
ChannelSum(x, rank, c) == TensorSum([i \in DOMAIN x |-> x[i][c]], rank - 1)

\* A mutant of SquaredDeviations: the mean is not subtracted.
RECURSIVE SquaredDeviationsFromZero(_, _, _, _)
SquaredDeviationsFromZero(x, rank, S, N) ==
    IF rank = 0 THEN (N * x) * (N * x)
    ELSE IF x = <<>> THEN 0
    ELSE SquaredDeviationsFromZero(Head(x), rank - 1, S, N)
            + SquaredDeviationsFromZero(Tail(x), rank, S, N)

\* ((x - mean)**2).sum() for mean = S/N, multiplied by N*N.
RECURSIVE SquaredDeviations(_, _, _, _)
SquaredDeviations(x, rank, S, N) ==
    IF rank = 0 THEN (N * x - S) * (N * x - S)
    ELSE IF x = <<>> THEN 0
    ELSE SquaredDeviations(Head(x), rank - 1, S, N)
            + SquaredDeviations(Tail(x), rank, S, N)

\* ((x - mean)**2).sum(dim=..., keepdim=True) at channel c.
ChannelSse(x, rank, c, S, N) ==
    SquaredDeviations([i \in DOMAIN x |-> x[i][c]], rank - 1, S, N)

StatsInit ==
    /\ ValIdle
    /\ TripIdle
    /\ BatchIdle
    /\ CfgIdle
    /\ WorkerIdle
    /\ IterIdle
    /\ CacheIdle
    /\ RecallIdle
    /\ \E n \in 0..MaxStatItems : data \in [1..n -> StatClips]
    /\ \E b \in 1..MaxStatBatch : loader = DataLoader(data, b)
    /\ sums = <<>>
    /\ stats = [pc |-> "called"]

\* Lines 275-278 and 287-288: the accumulators are zero.
StatsBegin ==
    /\ stats.pc = "called"
    /\ sums' = [video_sum   |-> [c \in VideoChannels |-> 0],
                video_count |-> [c \in VideoChannels |-> 0],
                audio_sum   |-> [c \in AudioChannels |-> 0],
                audio_count |-> [c \in AudioChannels |-> 0],
                video_sse   |-> [c \in VideoChannels |-> 0],
                audio_sse   |-> [c \in AudioChannels |-> 0]]
    /\ stats' = [pc |-> "mean", k |-> 1]
    /\ UNCHANGED <<data, loader>>
    /\ UNCHANGED <<tripVars, batchVars, cfgVars, workerVars, iterVars, cacheVars, recallVars, valVars>>

\* Lines 279-283, one batch of the mean pass.
MeanPass ==
    /\ stats.pc = "mean"
    /\ stats.k <= Len(loader)
    /\ LET batch == loader[stats.k] IN
       sums' = [sums EXCEPT
                  !.video_sum = [c \in VideoChannels |->
                                    @[c] + ChannelSum(batch.video, 5, c)],
                  !.video_count = [c \in VideoChannels |->
                                    @[c] + ChannelSum(ones_like(batch.video, 5), 5, c)],
                  !.audio_sum = [c \in AudioChannels |->
                                    @[c] + ChannelSum(batch.audio, 3, c)],
                  !.audio_count = [c \in AudioChannels |->
                                    @[c] + ChannelSum(ones_like(batch.audio, 3), 3, c)]]
    /\ stats' = [stats EXCEPT !.k = @ + 1]
    /\ UNCHANGED <<data, loader>>
    /\ UNCHANGED <<tripVars, batchVars, cfgVars, workerVars, iterVars, cacheVars, recallVars, valVars>>

\* Lines 284-288: the loader is exhausted; the means are sum/count and the second
\* pass starts over the same loader.
MeanDone ==
    /\ stats.pc = "mean"
    /\ stats.k > Len(loader)
    /\ stats' = [pc |-> "std", k |-> 1]
    /\ UNCHANGED <<data, loader, sums>>
    /\ UNCHANGED <<tripVars, batchVars, cfgVars, workerVars, iterVars, cacheVars, recallVars, valVars>>

\* Lines 290-292, one batch of the standard deviation pass.
StdPass ==
    /\ stats.pc = "std"
    /\ stats.k <= Len(loader)
    /\ LET batch == loader[stats.k] IN
       sums' = [sums EXCEPT
                  !.video_sse = [c \in VideoChannels |->
                                    @[c] + ChannelSse(batch.video, 5, c,
                                               sums.video_sum[c], sums.video_count[c])],
                  !.audio_sse = [c \in AudioChannels |->
                                    @[c] + ChannelSse(batch.audio, 3, c,
                                               sums.audio_sum[c], sums.audio_count[c])]]
    /\ stats' = [stats EXCEPT !.k = @ + 1]
    /\ UNCHANGED <<data, loader>>
    /\ UNCHANGED <<tripVars, batchVars, cfgVars, workerVars, iterVars, cacheVars, recallVars, valVars>>

\* (sse/count) ** 0.5 for an sse kept multiplied by count*count.
Std(sse, count) == [squared |-> <<sse, count * count * count>>]

\* Lines 293-296: the Stats returned.
StatsReturn ==
    /\ stats.pc = "std"
    /\ stats.k > Len(loader)
    /\ stats' = [pc |-> "done",
                 video_mean |-> [c \in VideoChannels |->
                                    <<sums.video_sum[c], sums.video_count[c]>>],
                 video_std  |-> [c \in VideoChannels |->
                                    Std(sums.video_sse[c], sums.video_count[c])],
                 audio_mean |-> [c \in AudioChannels |->
                                    <<sums.audio_sum[c], sums.audio_count[c]>>],
                 audio_std  |-> [c \in AudioChannels |->
                                    Std(sums.audio_sse[c], sums.audio_count[c])]]
    /\ UNCHANGED <<data, loader, sums>>
    /\ UNCHANGED <<tripVars, batchVars, cfgVars, workerVars, iterVars, cacheVars, recallVars, valVars>>

StatsNext ==
    \/ StatsBegin
    \/ MeanPass
    \/ MeanDone
    \/ StdPass
    \/ StatsReturn

SpecStats == StatsInit /\ [][StatsNext]_vars

\* The sum of f over the set S.
RECURSIVE SumOver(_, _)
SumOver(f, S) ==
    IF S = {} THEN 0
    ELSE LET x == CHOOSE y \in S : TRUE IN f[x] + SumOver(f, S \ {x})

\* The values of channel c of clip i, as a sequence over time.
VideoValues(i, c) == [t \in 1..Len(data[i].video[c]) |-> data[i].video[c][t][1][1]]
AudioValues(i, c) == data[i].audio[c]

RECURSIVE SeqSum(_)
SeqSum(xs) == IF xs = <<>> THEN 0 ELSE Head(xs) + SeqSum(Tail(xs))

Squares(xs) == [t \in DOMAIN xs |-> xs[t] * xs[t]]

\* The clips of batch k of the loader, as indices into data.
BatchClips(k) ==
    LET b == IF loader = <<>> THEN 1 ELSE Len(loader[1].video)
    IN { i \in DOMAIN data : (i - 1) \div b + 1 = k }

LongestVideo(k) ==
    CHOOSE m \in {Len(VideoValues(i, 1)) : i \in BatchClips(k)} :
        \A i \in BatchClips(k) : m >= Len(VideoValues(i, 1))
LongestAudio(k) ==
    CHOOSE m \in {Len(AudioValues(i, 1)) : i \in BatchClips(k)} :
        \A i \in BatchClips(k) : m >= Len(AudioValues(i, 1))

\* The number of values of a channel over all batches, the zero padding counted.
PaddedVideoCount ==
    SumOver([k \in DOMAIN loader |-> Cardinality(BatchClips(k)) * LongestVideo(k)],
            DOMAIN loader)
PaddedAudioCount ==
    SumOver([k \in DOMAIN loader |-> Cardinality(BatchClips(k)) * LongestAudio(k)],
            DOMAIN loader)

\* The number, the sum and the sum of squares of the values of the clips
\* themselves: none of them depends on the batches.
RawVideoCount == SumOver([i \in DOMAIN data |-> Len(VideoValues(i, 1))], DOMAIN data)
RawAudioCount == SumOver([i \in DOMAIN data |-> Len(AudioValues(i, 1))], DOMAIN data)
RawVideoSum(c) == SumOver([i \in DOMAIN data |-> SeqSum(VideoValues(i, c))], DOMAIN data)
RawAudioSum(c) == SumOver([i \in DOMAIN data |-> SeqSum(AudioValues(i, c))], DOMAIN data)
RawVideoSquares(c) ==
    SumOver([i \in DOMAIN data |-> SeqSum(Squares(VideoValues(i, c)))], DOMAIN data)
RawAudioSquares(c) ==
    SumOver([i \in DOMAIN data |-> SeqSum(Squares(AudioValues(i, c)))], DOMAIN data)

\* The population variance of n values with sum s and sum of squares q,
\* (q/n - (s/n)^2), as the quotient with denominator n^3.
PopulationVariance(n, s, q) == <<n * (n * q - s * s), n * n * n>>

\* Every batch holds clips of one length.
EqualLengthBatches ==
    \A k \in DOMAIN loader : \A i, j \in BatchClips(k) :
        /\ Len(VideoValues(i, 1)) = Len(VideoValues(j, 1))
        /\ Len(AudioValues(i, 1)) = Len(AudioValues(j, 1))

\* C19: the Stats returned hold, per channel, mean = (sum of the values of the
\* channel) / (number of values, zero padding counted) and the population
\* standard deviation of the same values around that mean, over the same count;
\* when every batch holds clips of one length the count is the number of
\* values of the clips, so the result is a function of the clips alone and not
\* of their split into batches.
C19_TwoPassStats ==
    stats.pc = "done" =>
        /\ \A c \in VideoChannels :
              /\ stats.video_mean[c] = <<RawVideoSum(c), PaddedVideoCount>>
              /\ stats.video_std[c].squared =
                    PopulationVariance(PaddedVideoCount, RawVideoSum(c), RawVideoSquares(c))
        /\ \A c \in AudioChannels :
              /\ stats.audio_mean[c] = <<RawAudioSum(c), PaddedAudioCount>>
              /\ stats.audio_std[c].squared =
                    PopulationVariance(PaddedAudioCount, RawAudioSum(c), RawAudioSquares(c))
        /\ EqualLengthBatches =>
              /\ PaddedVideoCount = RawVideoCount
              /\ PaddedAudioCount = RawAudioCount

\* C19 witness: Stats were returned for a loader of several batches, each of
\* clips of one length, with clips of different lengths among the batches and a
\* standard deviation that is not zero.
C19_Witness ==
    /\ stats.pc = "done"
    /\ Len(loader) >= 2
    /\ EqualLengthBatches
    /\ \E i, j \in DOMAIN data : Len(VideoValues(i, 1)) # Len(VideoValues(j, 1))
    /\ \E k \in DOMAIN loader : Cardinality(BatchClips(k)) >= 2
    /\ \A c \in VideoChannels : stats.video_std[c].squared[1] > 0

(***************************************************************************)
(* Validation: the loaders of PigData and the steps of PeppaPig.           *)
(*                                                                         *)
(* The trainer calls val_dataloader once and then, loader after loader in  *)
(* the order returned, validation_step(batch, batch_idx, dataloader_idx)   *)
(* for every batch, with dataloader_idx counting the loaders from 0; it    *)
(* ends with validation_epoch_end(outputs), outputs holding one list of    *)
(* step results per loader.  A dataset is taken to construct whenever its  *)
(* keyword arguments are accepted.                                         *)
(***************************************************************************)

\* The validation datasets of PigData, in the order setup assigns them.
ValDatasets == <<"val_dia", "val_dia3", "val_narr", "val_narr3">>
ValAttrs == Range(ValDatasets)

\* The parameters of PeppaPigIterableDataset.__init__ (lines 156-163).
InitParams == {"split", "target_size", "transform", "fragment_type", "duration", "jitter"}

\* The keyword arguments setup passes on to PeppaPigIterableDataset for each
\* dataset (cache is taken by PeppaPigDataset.__init__ itself).
SetupKwargs(attr) ==
    {"transform", "target_size", "split", "fragment_type", "duration"}
        \cup (IF attr = "val_dia" THEN {} ELSE {"triplet"})

\* The assignment of one dataset in setup succeeds: from_directory for the
\* triplet datasets when fixed_triplet is set, otherwise the constructor with
\* keywords it accepts (an unexpected keyword raises TypeError).
Assignable(attr, fixed_triplet) ==
    IF attr \in {"val_dia3", "val_narr3"} /\ fixed_triplet THEN TRUE
    ELSE SetupKwargs(attr) \subseteq InitParams

\* The datasets setup assigns before it returns or raises.
SetupAssigned(fixed_triplet) ==
    { ValDatasets[i] : i \in { k \in 1..Len(ValDatasets) :
                                  \A j \in 1..k : Assignable(ValDatasets[j], fixed_triplet) } }

\* The fields of the batches the two collate functions build.
BatchFields(collate_fn) ==
    IF collate_fn = "collate" THEN {"video", "audio"}
    ELSE {"anchor", "positive", "negative"}

\* A PigData module as constructed, or one whose validation datasets have been
\* assigned by the code that uses it; each dataset gives some number of batches.
ValInit ==
    /\ TripIdle
    /\ BatchIdle
    /\ CfgIdle
    /\ WorkerIdle
    /\ IterIdle
    /\ CacheIdle
    /\ RecallIdle
    /\ StatIdle
    /\ \E fixed_triplet \in BOOLEAN, attrs \in {{}, ValAttrs},
          batches \in [ValAttrs -> 0..MaxValBatches] :
           dm = [pc |-> "new", fixed_triplet |-> fixed_triplet, attrs |-> attrs,
                 batches |-> batches, exc |-> "none"]
    /\ val = [pc |-> "idle", loaders |-> <<>>, idx |-> 0, batch_idx |-> 0,
              outputs |-> <<>>, exc |-> "none"]

\* PigData.setup, lines 340-394: the datasets are assigned in order until a
\* constructor raises.
setup ==
    /\ dm.pc = "new"
    /\ LET assigned == SetupAssigned(dm.fixed_triplet) IN
       dm' = [dm EXCEPT !.attrs = @ \cup assigned,
                        !.pc = IF assigned = ValAttrs THEN "ready" ELSE "raised",
                        !.exc = IF assigned = ValAttrs THEN "none" ELSE "TypeError"]
    /\ UNCHANGED val
    /\ UNCHANGED <<tripVars, batchVars, cfgVars, workerVars, iterVars, cacheVars, recallVars, statVars>>

\* PigData.val_dataloader, lines 396-410: four loaders, returned as
\* [dia, dia3, narr, narr3]; a dataset that was never assigned is an
\* AttributeError.
val_dataloader ==
    /\ val.pc = "idle"
    /\ IF ValAttrs \subseteq dm.attrs
       THEN val' = [val EXCEPT
                      !.pc = "loop",
                      !.loaders = << [dataset |-> "val_dia", collate_fn |-> "collate"],
                                     [dataset |-> "val_dia3", collate_fn |-> "collate_triplets"],
                                     [dataset |-> "val_narr", collate_fn |-> "collate"],
                                     [dataset |-> "val_narr3", collate_fn |-> "collate_triplets"] >>,
                      !.outputs = [i \in 1..4 |-> <<>>]]
       ELSE val' = [val EXCEPT !.pc = "raised", !.exc = "AttributeError"]
    /\ UNCHANGED dm
    /\ UNCHANGED <<tripVars, batchVars, cfgVars, workerVars, iterVars, cacheVars, recallVars, statVars>>

\* PeppaPig.validation_step, lines 194-210, on a batch with the given fields.
validation_step(fields, batch_idx, dataloader_idx) ==
    IF dataloader_idx \in {0, 1}
    THEN IF {"video", "audio"} \subseteq fields
         THEN [raised |-> "none", value |-> <<"V", "A">>]
         ELSE [raised |-> "AttributeError"]
    ELSE [raised |-> "ValueError"]

\* PeppaPig.validation_epoch_end, lines 213-226: outputs is unpacked into two
\* names, and each of the two into V and A by zip.
validation_epoch_end(outputs) ==
    IF Len(outputs) # 2 THEN "ValueError"
    ELSE IF \E k \in 1..2 : outputs[k] = <<>> THEN "ValueError"
    ELSE "none"

\* The trainer takes the next batch of the current loader and calls
\* validation_step on it.
ValidationStep ==
    /\ val.pc = "loop"
    /\ val.idx < Len(val.loaders)
    /\ val.batch_idx < dm.batches[val.loaders[val.idx + 1].dataset]
    /\ LET r == validation_step(BatchFields(val.loaders[val.idx + 1].collate_fn),
                                val.batch_idx, val.idx)
       IN IF r.raised = "none"
          THEN val' = [val EXCEPT !.batch_idx = @ + 1,
                                  !.outputs[val.idx + 1] = Append(@, r.value)]
          ELSE val' = [val EXCEPT !.pc = "raised", !.exc = r.raised]
    /\ UNCHANGED dm
    /\ UNCHANGED <<tripVars, batchVars, cfgVars, workerVars, iterVars, cacheVars, recallVars, statVars>>

\* The current loader is exhausted: the trainer goes on to the next one.
NextLoader ==
    /\ val.pc = "loop"
    /\ val.idx < Len(val.loaders)
    /\ val.batch_idx = dm.batches[val.loaders[val.idx + 1].dataset]
    /\ val' = [val EXCEPT !.idx = @ + 1, !.batch_idx = 0]
    /\ UNCHANGED dm
    /\ UNCHANGED <<tripVars, batchVars, cfgVars, workerVars, iterVars, cacheVars, recallVars, statVars>>

\* All loaders are exhausted: the trainer calls validation_epoch_end.
ValidationEpochEnd ==
    /\ val.pc = "loop"
    /\ val.idx = Len(val.loaders)
    /\ LET e == validation_epoch_end(val.outputs) IN
       val' = [val EXCEPT !.pc = IF e = "none" THEN "done" ELSE "raised", !.exc = e]
    /\ UNCHANGED dm
    /\ UNCHANGED <<tripVars, batchVars, cfgVars, workerVars, iterVars, cacheVars, recallVars, statVars>>

ValNext ==
    \/ setup
    \/ val_dataloader
    \/ ValidationStep
    \/ NextLoader
    \/ ValidationEpochEnd

SpecVal == ValInit /\ [][ValNext]_vars

\* C23: a validation run over the loaders val_dataloader returned raises
\* nothing: validation_step accepts the index and the batch of every loader,
\* and validation_epoch_end consumes the outputs of all of them.
C23_ValidationCompletes ==
    val.loaders # <<>> => val.exc = "none"

====
